---- MODULE Spec2Model ----
(***************************************************************************)
(* Orchestration kernel of SYMBIOSIS: circuit breaker (budget + global     *)
(* breaker), approval gate, scheduler with priority queue, router,         *)
(* resource monitor and event bus.                                         *)
(* Each component is a state machine over its own variables; one           *)
(* specification per component shares the clock `now`.                     *)
(***************************************************************************)
EXTENDS Integers, Sequences, FiniteSets, TLC

\* ------------------------------------------------------------------------
\* Bounds of the model (not program constants)
\* ------------------------------------------------------------------------
MaxTime == 3
MaxFailures == 4
MaxSuccesses == 3
MaxUsageCalls == 2
MaxBudgetTime == 2
ResetTimeoutMs == 2

\* ------------------------------------------------------------------------
\* Program constants
\* ------------------------------------------------------------------------
FailureThreshold == 3
SuccessThreshold == 2

Undefined == -1
NoTime == -1

VARIABLES
  now,              \* Date.now(), in clock ticks
  cbState,          \* CircuitBreaker.state (BehaviorSubject value)
  failureCount,     \* CircuitBreaker.failureCount
  successCount,     \* CircuitBreaker.successCount
  lastFailureTime,  \* CircuitBreaker.lastFailureTime (NoTime = null)
  contexts,         \* CircuitBreaker.contexts : id -> IExecutionContext
  cbResult,         \* value returned by the breaker call just made
  probeSuccesses,   \* recordSuccess calls seen since HALF_OPEN was entered
  autoApproveLevel, \* ApprovalGate.config.autoApproveLevel
  requests,         \* ApprovalGate.requests : id -> IApprovalRequest
  requestCounter,   \* ApprovalGate.requestCounter
  pendingCount,     \* ApprovalGate.pendingCount (BehaviorSubject value)
  requestStream,    \* ids broadcast on ApprovalGate.requestStream, in order
  gateTimers,       \* armed setTimeout callbacks of requestApproval
  gatePollers,      \* suspended waitForResolution calls
  gateResult,       \* value returned by the gate call just made
  isRunning,        \* Scheduler.isRunning
  maxConcurrent,    \* Scheduler.config.maxConcurrent
  queue,            \* Scheduler.queue : priority -> FIFO of task ids
  taskCounter,      \* Scheduler.taskCounter
  tasks,            \* the IScheduledTask returned by each schedule call
  running,          \* keys of Scheduler.running
  work,             \* state of the promise returned by each task.execute()
  timeoutTimer,     \* state of the timeout armed by executeTask
  completedCount,   \* Scheduler.completedCount
  failedCount,      \* Scheduler.failedCount
  metrics,          \* Scheduler.metricsSubject value
  completionStream, \* task ids emitted on Scheduler.completionStream
  waiters,          \* processQueue loops suspended in Promise.race
  unhandled,        \* a processQueue promise was rejected (nobody handles it)
  startLog,         \* task ids in the order task.execute() was called
  outcomeLog,       \* <<task id, outcome>> in the order executeTask settled
  startCount,       \* start() calls that started the scheduler
  cancelled,        \* task ids removed by cancel
  waits,            \* the waitFor calls made: timer, subscription, promise
  modelHealth,      \* Router.modelHealth : modelId -> BehaviorSubject value
  routerRequestStream, \* request ids broadcast on Router.requestStream
  routerMetrics,    \* Router.metricsSubject value
  inflight,         \* route calls suspended in executeWithFallback
  invocations,      \* callModel invocations, in order
  routeCounter,     \* route calls made
  routeResult,      \* value returned by the route call just finished
  activeAgents,     \* ResourceMonitor.activeAgents : agentId -> IActiveAgent
  tokenHistory,     \* ResourceMonitor.tokenHistory
  apiCallHistory,   \* ResourceMonitor.apiCallHistory
  totalTokensConsumed, \* ResourceMonitor.totalTokensConsumed
  totalCostCents,   \* ResourceMonitor.totalCostCents
  snapshot,         \* ResourceMonitor.snapshot$ (BehaviorSubject value)
  nextPollAt,       \* when the monitor's polling interval fires next
  lastPendingTasks, \* the count last given to setPendingTasks
  monitorResult,    \* value returned by the monitor call just made
  ranking,          \* the rankModels call just made: arguments and result
  pq,               \* a PriorityQueue used on its own, and the call just made
  bus               \* EventBus: counter, replay ring, subscribers and what they got

cbVars == <<cbState, failureCount, successCount, lastFailureTime, contexts,
            cbResult, probeSuccesses>>
gateVars == <<autoApproveLevel, requests, requestCounter, pendingCount,
              requestStream, gateTimers, gatePollers, gateResult>>

schedVars == <<isRunning, maxConcurrent, queue, taskCounter, tasks, running,
               work, timeoutTimer, completedCount, failedCount, metrics,
               completionStream, waiters, unhandled, startLog, outcomeLog,
               startCount, cancelled, waits>>
routerVars == <<modelHealth, routerRequestStream, routerMetrics, inflight,
                invocations, routeCounter, routeResult>>

monitorVars == <<activeAgents, tokenHistory, apiCallHistory,
                 totalTokensConsumed, totalCostCents, snapshot, nextPollAt,
                 lastPendingTasks, monitorResult>>

notBreaker == <<gateVars, schedVars, routerVars, monitorVars, ranking, pq, bus>>
notGate == <<cbVars, schedVars, routerVars, monitorVars, ranking, pq, bus>>
notScheduler == <<cbVars, gateVars, routerVars, monitorVars, ranking, pq, bus>>
notRouter == <<cbVars, schedVars, monitorVars, ranking, pq, bus>>
notMonitor == <<cbVars, gateVars, schedVars, routerVars, ranking, pq, bus>>
notRanking == <<cbVars, gateVars, schedVars, routerVars, monitorVars, pq, bus>>
notQueue == <<cbVars, gateVars, schedVars, routerVars, monitorVars, ranking, bus>>
notBus == <<cbVars, gateVars, schedVars, routerVars, monitorVars, ranking, pq>>

\* ========================================================================
\* CIRCUIT BREAKER
\* ========================================================================
CtxIds == {"ctx-1", "ctx-2"}

\* config.defaultBudget (scaled to clock ticks / small units)
DefaultBudget ==
  [maxTokens |-> 2, maxTurns |-> 2, maxTimeMs |-> 2, maxCostCents |-> 2,
   currentFuel |-> 3]

NoOverride ==
  [maxTokens |-> Undefined, maxTurns |-> Undefined, maxTimeMs |-> Undefined,
   maxCostCents |-> Undefined, currentFuel |-> Undefined]

\* Partial<IExecutionBudget> values a caller passes as customBudget
CustomBudgets ==
  { NoOverride,
    [NoOverride EXCEPT !.currentFuel = 1],
    [NoOverride EXCEPT !.maxTimeMs = 1] }

\* (tokens, costCents) pairs passed to recordUsage
UsageInputs == { <<0, 0>>, <<2, 0>>, <<0, 2>> }

\* a ?? b
Coalesce(a, b) == IF a = Undefined THEN b ELSE a

Ok(op, id) == [op |-> op, id |-> id, ok |-> TRUE, code |-> "", message |-> ""]
Err(op, id, code, message) ==
  [op |-> op, id |-> id, ok |-> FALSE, code |-> code, message |-> message]
NoResult == [op |-> "none", id |-> "", ok |-> TRUE, code |-> "", message |-> ""]

MapSet(m, k, v) == [i \in (DOMAIN m) \cup {k} |-> IF i = k THEN v ELSE m[i]]
MapDelete(m, k) == [i \in (DOMAIN m) \ {k} |-> m[i]]

RECURSIVE SumOver(_, _)
SumOver(f, S) ==
  IF S = {} THEN 0
  ELSE LET x == CHOOSE y \in S : TRUE IN f[x] + SumOver(f, S \ {x})

TotalTurns == SumOver([i \in DOMAIN contexts |-> contexts[i].turnsExecuted],
                      DOMAIN contexts)

shouldAttemptRecovery_strict ==
  IF lastFailureTime = NoTime THEN TRUE
  ELSE now - lastFailureTime > ResetTimeoutMs

shouldAttemptRecovery_always == TRUE

shouldAttemptRecovery ==
  IF lastFailureTime = NoTime THEN TRUE
  ELSE now - lastFailureTime >= ResetTimeoutMs

newContext(customBudget) ==
  [startTime |-> now,
   budget |->
     [maxTokens    |-> Coalesce(customBudget.maxTokens, DefaultBudget.maxTokens),
      maxTurns     |-> Coalesce(customBudget.maxTurns, DefaultBudget.maxTurns),
      maxTimeMs    |-> Coalesce(customBudget.maxTimeMs, DefaultBudget.maxTimeMs),
      maxCostCents |-> Coalesce(customBudget.maxCostCents, DefaultBudget.maxCostCents),
      currentFuel  |-> Coalesce(customBudget.currentFuel, DefaultBudget.currentFuel)],
   tokensUsed |-> 0,
   turnsExecuted |-> 0,
   costAccumulated |-> 0]

CreateContext(id, customBudget) ==
  IF cbState = "OPEN" /\ ~shouldAttemptRecovery
  THEN /\ cbResult' = Err("createContext", id, "CIRCUIT_OPEN", "Circuit breaker is open")
       /\ UNCHANGED <<cbState, failureCount, successCount, lastFailureTime,
                      contexts, probeSuccesses>>
  ELSE /\ cbState' = IF cbState = "OPEN" THEN "HALF_OPEN" ELSE cbState
       /\ probeSuccesses' = IF cbState = "OPEN" THEN 0 ELSE probeSuccesses
       /\ contexts' = MapSet(contexts, id, newContext(customBudget))
       /\ cbResult' = Ok("createContext", id)
       /\ UNCHANGED <<failureCount, successCount, lastFailureTime>>

canProceed_tokensFirst(ctxs, contextId, t) ==
  IF contextId \notin DOMAIN ctxs
  THEN Err("canProceed", contextId, "BUDGET_EXCEEDED", "Context not found")
  ELSE LET context == ctxs[contextId] IN
    IF context.tokensUsed >= context.budget.maxTokens
    THEN Err("canProceed", contextId, "BUDGET_EXCEEDED", "Token budget exceeded")
    ELSE IF context.budget.currentFuel <= 0
    THEN Err("canProceed", contextId, "FUEL_DEPLETED", "Fuel depleted")
    ELSE IF context.turnsExecuted >= context.budget.maxTurns
    THEN Err("canProceed", contextId, "MAX_TURNS_EXCEEDED", "Max turns exceeded")
    ELSE IF context.costAccumulated >= context.budget.maxCostCents
    THEN Err("canProceed", contextId, "BUDGET_EXCEEDED", "Cost budget exceeded")
    ELSE IF t - context.startTime >= context.budget.maxTimeMs
    THEN Err("canProceed", contextId, "TIMEOUT", "Execution timeout")
    ELSE Ok("canProceed", contextId)

canProceed_breakerAware(ctxs, contextId, t) ==
  IF contextId \notin DOMAIN ctxs
  THEN Err("canProceed", contextId, "BUDGET_EXCEEDED", "Context not found")
  ELSE LET context == ctxs[contextId] IN
    IF cbState = "OPEN"
    THEN Err("canProceed", contextId, "CIRCUIT_OPEN", "Circuit breaker is open")
    ELSE IF context.budget.currentFuel <= 0
    THEN Err("canProceed", contextId, "FUEL_DEPLETED", "Fuel depleted")
    ELSE IF context.tokensUsed >= context.budget.maxTokens
    THEN Err("canProceed", contextId, "BUDGET_EXCEEDED", "Token budget exceeded")
    ELSE IF context.turnsExecuted >= context.budget.maxTurns
    THEN Err("canProceed", contextId, "MAX_TURNS_EXCEEDED", "Max turns exceeded")
    ELSE IF context.costAccumulated >= context.budget.maxCostCents
    THEN Err("canProceed", contextId, "BUDGET_EXCEEDED", "Cost budget exceeded")
    ELSE IF t - context.startTime >= context.budget.maxTimeMs
    THEN Err("canProceed", contextId, "TIMEOUT", "Execution timeout")
    ELSE Ok("canProceed", contextId)

canProceed(ctxs, contextId, t) ==
  IF contextId \notin DOMAIN ctxs
  THEN Err("canProceed", contextId, "BUDGET_EXCEEDED", "Context not found")
  ELSE LET context == ctxs[contextId] IN
    IF context.budget.currentFuel <= 0
    THEN Err("canProceed", contextId, "FUEL_DEPLETED", "Fuel depleted")
    ELSE IF context.tokensUsed >= context.budget.maxTokens
    THEN Err("canProceed", contextId, "BUDGET_EXCEEDED", "Token budget exceeded")
    ELSE IF context.turnsExecuted >= context.budget.maxTurns
    THEN Err("canProceed", contextId, "MAX_TURNS_EXCEEDED", "Max turns exceeded")
    ELSE IF context.costAccumulated >= context.budget.maxCostCents
    THEN Err("canProceed", contextId, "BUDGET_EXCEEDED", "Cost budget exceeded")
    ELSE IF t - context.startTime >= context.budget.maxTimeMs
    THEN Err("canProceed", contextId, "TIMEOUT", "Execution timeout")
    ELSE Ok("canProceed", contextId)

CanProceed(contextId) ==
  /\ cbResult' = canProceed(contexts, contextId, now)
  /\ UNCHANGED <<cbState, failureCount, successCount, lastFailureTime,
                 contexts, probeSuccesses>>

RecordUsage_fuelByTokens(contextId, tokens, costCents) ==
  /\ TotalTurns < MaxUsageCalls
  /\ IF contextId \notin DOMAIN contexts
     THEN /\ cbResult' = Err("recordUsage", contextId, "BUDGET_EXCEEDED", "Context not found")
          /\ UNCHANGED contexts
     ELSE /\ contexts' =
               [contexts EXCEPT
                  ![contextId].tokensUsed = @ + tokens,
                  ![contextId].costAccumulated = @ + costCents,
                  ![contextId].turnsExecuted = @ + 1,
                  ![contextId].budget.currentFuel = @ - tokens]
          /\ cbResult' = Ok("recordUsage", contextId)
  /\ UNCHANGED <<cbState, failureCount, successCount, lastFailureTime,
                 probeSuccesses>>

RecordUsage(contextId, tokens, costCents) ==
  /\ TotalTurns < MaxUsageCalls
  /\ IF contextId \notin DOMAIN contexts
     THEN /\ cbResult' = Err("recordUsage", contextId, "BUDGET_EXCEEDED", "Context not found")
          /\ UNCHANGED contexts
     ELSE /\ contexts' =
               [contexts EXCEPT
                  ![contextId].tokensUsed = @ + tokens,
                  ![contextId].costAccumulated = @ + costCents,
                  ![contextId].turnsExecuted = @ + 1,
                  ![contextId].budget.currentFuel = @ - 1]
          /\ cbResult' = Ok("recordUsage", contextId)
  /\ UNCHANGED <<cbState, failureCount, successCount, lastFailureTime,
                 probeSuccesses>>

RecordSuccess ==
  /\ successCount < MaxSuccesses
  /\ LET count == successCount + 1
         closes == cbState = "HALF_OPEN" /\ count >= SuccessThreshold
     IN /\ cbState' = IF closes THEN "CLOSED" ELSE cbState
        /\ failureCount' = IF closes THEN 0 ELSE failureCount
        /\ successCount' = IF closes THEN 0 ELSE count
  /\ probeSuccesses' = IF cbState = "HALF_OPEN" THEN probeSuccesses + 1
                       ELSE probeSuccesses
  /\ cbResult' = Ok("recordSuccess", "")
  /\ UNCHANGED <<lastFailureTime, contexts>>

RecordFailure_aboveThreshold ==
  /\ failureCount < MaxFailures
  /\ failureCount' = failureCount + 1
  /\ lastFailureTime' = now
  /\ successCount' = 0
  /\ cbState' = IF cbState = "HALF_OPEN" THEN "OPEN"
                ELSE IF failureCount + 1 > FailureThreshold THEN "OPEN"
                ELSE cbState
  /\ cbResult' = Ok("recordFailure", "")
  /\ UNCHANGED <<contexts, probeSuccesses>>

RecordFailure ==
  /\ failureCount < MaxFailures
  /\ failureCount' = failureCount + 1
  /\ lastFailureTime' = now
  /\ successCount' = 0
  /\ cbState' = IF cbState = "HALF_OPEN" THEN "OPEN"
                ELSE IF failureCount + 1 >= FailureThreshold THEN "OPEN"
                ELSE cbState
  /\ cbResult' = Ok("recordFailure", "")
  /\ UNCHANGED <<contexts, probeSuccesses>>

ReleaseContext(contextId) ==
  /\ contexts' = MapDelete(contexts, contextId)
  /\ cbResult' = Ok("releaseContext", contextId)
  /\ UNCHANGED <<cbState, failureCount, successCount, lastFailureTime,
                 probeSuccesses>>

\* passage of time between calls
TickBreaker ==
  /\ now < MaxTime
  /\ now' = now + 1
  /\ cbResult' = NoResult
  /\ UNCHANGED <<cbState, failureCount, successCount, lastFailureTime,
                 contexts, probeSuccesses>>
  /\ UNCHANGED notBreaker

\* ========================================================================
\* APPROVAL GATE
\* ========================================================================
MaxRequests == 2
MaxGateTime == 2
DefaultTimeoutMs == 1
PollIntervalMs == 1

\* levelOrder of shouldAutoApprove
levelOrder == <<"auto", "notify", "approve", "block">>
ApprovalLevels == {levelOrder[i] : i \in DOMAIN levelOrder}
indexOf(seq, x) == CHOOSE i \in DOMAIN seq : seq[i] = x

\* timeoutMs arguments of requestApproval (Undefined = omitted)
TimeoutInputs == {Undefined, 2}
\* operation names: "route-<k>" asks approval for routing request k
Operations == {"route-1"}
Resolvers == {"human"}
NoReason == "undefined"
Reasons == {"policy"}

GateOk(op, id, status) ==
  [op |-> op, id |-> id, ok |-> TRUE, code |-> "", status |-> status]
GateErr(op, id, code) ==
  [op |-> op, id |-> id, ok |-> FALSE, code |-> code, status |-> ""]
NoGateResult == [op |-> "none", id |-> 0, ok |-> TRUE, code |-> "", status |-> ""]

shouldAutoApprove_never(level) == FALSE

shouldAutoApprove(level) ==
  indexOf(levelOrder, level) <= indexOf(levelOrder, autoApproveLevel)

createRequest(operation, level, timeoutMs) ==
  [id |-> requestCounter + 1,
   operation |-> operation,
   level |-> level,
   createdAt |-> now,
   expiresAt |-> now + Coalesce(timeoutMs, DefaultTimeoutMs),
   status |-> "pending",
   resolvedAt |-> NoTime,
   resolvedBy |-> NoReason,
   reason |-> NoReason]

countPending_all(reqs) == Cardinality(DOMAIN reqs)

\* updatePendingCount's count over a request map
countPending(reqs) == Cardinality({i \in DOMAIN reqs : reqs[i].status = "pending"})

\* handleTimeout as a function of the request map
handleTimeout_unguarded(reqs, requestId) ==
  IF requestId \in DOMAIN reqs
  THEN [reqs EXCEPT ![requestId].status = "timeout", ![requestId].resolvedAt = now]
  ELSE reqs

handleTimeout_ignored(reqs, requestId) == reqs

handleTimeout(reqs, requestId) ==
  IF requestId \in DOMAIN reqs /\ reqs[requestId].status = "pending"
  THEN [reqs EXCEPT ![requestId].status = "timeout", ![requestId].resolvedAt = now]
  ELSE reqs

RequestApproval(operation, level, timeoutMs) ==
  /\ requestCounter < MaxRequests
  /\ IF level = "block"
     THEN /\ gateResult' = GateErr("requestApproval", 0, "BLOCKED")
          /\ UNCHANGED <<requests, requestCounter, pendingCount, requestStream,
                         gateTimers>>
     ELSE IF level = "auto" \/ shouldAutoApprove(level)
     THEN LET autoRequest ==
                [createRequest(operation, level, timeoutMs) EXCEPT
                   !.status = "auto_approved", !.resolvedAt = now]
          IN /\ requestCounter' = requestCounter + 1
             /\ requests' = MapSet(requests, autoRequest.id, autoRequest)
             /\ gateResult' = GateOk("requestApproval", autoRequest.id, autoRequest.status)
             /\ UNCHANGED <<pendingCount, requestStream, gateTimers>>
     ELSE LET request == createRequest(operation, level, timeoutMs)
          IN /\ requestCounter' = requestCounter + 1
             /\ requests' = MapSet(requests, request.id, request)
             /\ pendingCount' = countPending(requests')
             /\ requestStream' = Append(requestStream, request.id)
             /\ gateTimers' = gateTimers \cup
                  {[id |-> request.id,
                    at |-> now + Coalesce(timeoutMs, DefaultTimeoutMs)]}
             /\ gateResult' = GateOk("requestApproval", request.id, request.status)
  /\ UNCHANGED <<autoApproveLevel, gatePollers>>

resolveRequest_noExpiry(op, requestId, status, resolvedBy, reason) ==
  /\ IF requestId \notin DOMAIN requests
     THEN /\ gateResult' = GateErr(op, requestId, "REQUEST_NOT_FOUND")
          /\ UNCHANGED <<requests, pendingCount>>
     ELSE IF requests[requestId].status # "pending"
     THEN /\ gateResult' = GateErr(op, requestId, "ALREADY_RESOLVED")
          /\ UNCHANGED <<requests, pendingCount>>
     ELSE /\ requests' = [requests EXCEPT
                            ![requestId].status = status,
                            ![requestId].resolvedAt = now,
                            ![requestId].resolvedBy = resolvedBy,
                            ![requestId].reason = reason]
          /\ pendingCount' = countPending(requests')
          /\ gateResult' = GateOk(op, requestId, status)
  /\ UNCHANGED <<autoApproveLevel, requestCounter, requestStream, gateTimers,
                 gatePollers>>

resolveRequest(op, requestId, status, resolvedBy, reason) ==
  /\ IF requestId \notin DOMAIN requests
     THEN /\ gateResult' = GateErr(op, requestId, "REQUEST_NOT_FOUND")
          /\ UNCHANGED <<requests, pendingCount>>
     ELSE IF requests[requestId].status # "pending"
     THEN /\ gateResult' = GateErr(op, requestId, "ALREADY_RESOLVED")
          /\ UNCHANGED <<requests, pendingCount>>
     ELSE IF now > requests[requestId].expiresAt
     THEN /\ gateResult' = GateErr(op, requestId, "EXPIRED")
          /\ UNCHANGED <<requests, pendingCount>>
     ELSE /\ requests' = [requests EXCEPT
                            ![requestId].status = status,
                            ![requestId].resolvedAt = now,
                            ![requestId].resolvedBy = resolvedBy,
                            ![requestId].reason = reason]
          /\ pendingCount' = countPending(requests')
          /\ gateResult' = GateOk(op, requestId, status)
  /\ UNCHANGED <<autoApproveLevel, requestCounter, requestStream, gateTimers,
                 gatePollers>>

Approve(requestId, approvedBy, reason) ==
  resolveRequest("approve", requestId, "approved", approvedBy, reason)

Deny(requestId, deniedBy, reason) ==
  resolveRequest("deny", requestId, "denied", deniedBy, reason)

\* the setTimeout callback of requestApproval runs (no earlier than its delay)
TimeoutFires(timer) ==
  /\ timer \in gateTimers
  /\ now >= timer.at
  /\ gateTimers' = gateTimers \ {timer}
  /\ requests' = handleTimeout(requests, timer.id)
  /\ pendingCount' = IF requests' # requests THEN countPending(requests')
                     ELSE pendingCount
  /\ gateResult' = NoGateResult
  /\ UNCHANGED <<autoApproveLevel, requestCounter, requestStream, gatePollers>>

\* waitForResolution up to its first suspension
WaitForResolution(requestId, pollIntervalMs) ==
  /\ gatePollers = {}
  /\ IF requestId \notin DOMAIN requests
     THEN /\ gateResult' = GateErr("waitForResolution", requestId, "REQUEST_NOT_FOUND")
          /\ UNCHANGED gatePollers
     ELSE IF requests[requestId].status # "pending"
     THEN /\ gateResult' = GateOk("waitForResolution", requestId,
                                  requests[requestId].status)
          /\ UNCHANGED gatePollers
     ELSE /\ gatePollers' = gatePollers \cup
               {[id |-> requestId, wakeAt |-> now + pollIntervalMs,
                 interval |-> pollIntervalMs]}
          /\ gateResult' = NoGateResult
  /\ UNCHANGED <<autoApproveLevel, requests, requestCounter, pendingCount,
                 requestStream, gateTimers>>

PollWakes_noExpiry(poller) ==
  /\ poller \in gatePollers
  /\ now >= poller.wakeAt
  /\ IF requests[poller.id].status = "pending"
     THEN /\ gatePollers' = (gatePollers \ {poller}) \cup
               {[poller EXCEPT !.wakeAt = now + poller.interval]}
          /\ gateResult' = NoGateResult
     ELSE /\ gatePollers' = gatePollers \ {poller}
          /\ gateResult' = GateOk("waitForResolution", poller.id,
                                  requests[poller.id].status)
  /\ UNCHANGED <<autoApproveLevel, requests, pendingCount, requestCounter,
                 requestStream, gateTimers>>

\* waitForResolution resumes after its poll delay
PollWakes(poller) ==
  /\ poller \in gatePollers
  /\ now >= poller.wakeAt
  /\ IF now > requests[poller.id].expiresAt
     THEN /\ requests' = handleTimeout(requests, poller.id)
          /\ pendingCount' = IF requests' # requests THEN countPending(requests')
                             ELSE pendingCount
          /\ gatePollers' = gatePollers \ {poller}
          /\ gateResult' = GateOk("waitForResolution", poller.id,
                                  requests'[poller.id].status)
     ELSE IF requests[poller.id].status = "pending"
     THEN /\ gatePollers' = (gatePollers \ {poller}) \cup
               {[poller EXCEPT !.wakeAt = now + poller.interval]}
          /\ gateResult' = NoGateResult
          /\ UNCHANGED <<requests, pendingCount>>
     ELSE /\ gatePollers' = gatePollers \ {poller}
          /\ gateResult' = GateOk("waitForResolution", poller.id,
                                  requests[poller.id].status)
          /\ UNCHANGED <<requests, pendingCount>>
  /\ UNCHANGED <<autoApproveLevel, requestCounter, requestStream, gateTimers>>

isApproved(requestId) ==
  IF requestId \notin DOMAIN requests THEN FALSE
  ELSE requests[requestId].status \in {"approved", "auto_approved"}

getPendingRequests == {i \in DOMAIN requests : requests[i].status = "pending"}

TickGate ==
  /\ now < MaxGateTime
  /\ now' = now + 1
  /\ gateResult' = NoGateResult
  /\ UNCHANGED <<autoApproveLevel, requests, requestCounter, pendingCount,
                 requestStream, gateTimers, gatePollers>>
  /\ UNCHANGED notGate

InitGate ==
  /\ autoApproveLevel \in ApprovalLevels
  /\ requests = << >>
  /\ requestCounter = 0
  /\ pendingCount = 0
  /\ requestStream = << >>
  /\ gateTimers = {}
  /\ gatePollers = {}
  /\ gateResult = NoGateResult

\* ========================================================================
\* EVENT BUS
\* ========================================================================
MaxEvents == 3
MaxSubs == 2
\* IEventBusConfig.replayBufferSize
replayBufferSize == 2

SubIds == 1..MaxSubs
\* EventType values emitted; handlers answer an "a" with a "b"
EventTypes == {"a", "b"}
\* IEventFilter: no filter, or a list of types (sources and correlation ids
\* are matched the same way and are left out)
NoFilter == [defined |-> FALSE, types |-> {}]
EventFilters ==
  {NoFilter} \cup {[defined |-> TRUE, types |-> T] : T \in {{"a"}, {"b"}}}

NoSubscriber == [kind |-> "none", filter |-> NoFilter, reacts |-> FALSE,
                 reacted |-> FALSE, received |-> << >>, since |-> 0,
                 replayed |-> << >>]

matchesFilter(event, eventFilter) ==
  IF ~eventFilter.defined THEN TRUE ELSE event.type \in eventFilter.types

\* ReplaySubject(bufferSize): the buffer keeps the newest bufferSize values
trimBuffer(buffer) ==
  IF Len(buffer) <= replayBufferSize THEN buffer
  ELSE SubSeq(buffer, Len(buffer) - replayBufferSize + 1, Len(buffer))

\* observers of a subject, in the order they subscribed
observers(b, kind) == SelectSeq(b.order, LAMBDA s : b.subs[s].kind = kind)

RECURSIVE busEmit(_, _)
RECURSIVE deliverAll(_, _, _)
\* Subject.next: the observers are called one after the other, each call
\* running the subscriber's handler to its end; a handler that emits runs
\* the whole nested emit before the next observer is called
deliverAll(b, targets, event) ==
  IF targets = << >> THEN b
  ELSE LET s == Head(targets)
           sub == b.subs[s]
           got == matchesFilter(event, sub.filter)
           b1 == IF got THEN [b EXCEPT !.subs[s].received = Append(@, event.id)]
                 ELSE b
           fire == got /\ sub.reacts /\ ~sub.reacted /\ event.type = "a"
           b2 == IF fire THEN busEmit([b1 EXCEPT !.subs[s].reacted = TRUE], "b")
                 ELSE b1
       IN deliverAll(b2, Tail(targets), event)

\* emit: generateEventId, then eventStream.next(event), whose first
\* observer is the constructor's pipe into replayStream
busEmit(b, type) ==
  LET id == b.eventCounter + 1
      event == [id |-> id, type |-> type]
      counted == [b EXCEPT !.eventCounter = id, !.emitted = Append(@, event)]
      ringed == [counted EXCEPT !.ring = trimBuffer(Append(@, event))]
      replayed == deliverAll(ringed, observers(counted, "replay"), event)
  IN deliverAll(replayed, observers(counted, "on"), event)

\* ReplaySubject._subscribe: a copy of the buffer is sent to the new
\* observer, which is already registered
RECURSIVE replayTo(_, _, _)
replayTo(b, s, copy) ==
  IF copy = << >> THEN b
  ELSE replayTo(deliverAll(b, <<s>>, Head(copy)), s, Tail(copy))

InitBus ==
  bus = [eventCounter |-> 0, ring |-> << >>, order |-> << >>,
         subs |-> [s \in SubIds |-> NoSubscriber], emitted |-> << >>,
         ret |-> Undefined]

Emit(type) ==
  /\ bus.eventCounter < MaxEvents
  /\ bus' = [busEmit(bus, type) EXCEPT !.ret = bus.eventCounter + 1]

\* on(filter).subscribe(handler) and onWithReplay(filter).subscribe(handler)
Subscribe(s, kind, eventFilter, reacts) ==
  /\ bus.subs[s] = NoSubscriber
  /\ \A v \in SubIds : v < s => bus.subs[v] # NoSubscriber
  /\ LET joined == [bus EXCEPT
                      !.order = Append(@, s),
                      !.subs[s] = [NoSubscriber EXCEPT
                                     !.kind = kind, !.filter = eventFilter,
                                     !.reacts = reacts,
                                     !.since = bus.eventCounter,
                                     !.replayed = IF kind = "replay"
                                                  THEN bus.ring ELSE << >>],
                      !.ret = Undefined]
     IN bus' = IF kind = "replay" THEN replayTo(joined, s, bus.ring) ELSE joined

\* ========================================================================
\* SCHEDULER + PRIORITY QUEUE
\* ========================================================================
MaxTasks == 3
MaxCap == 2
MaxStarts == 1
MaxRestarts == 2

\* enum Priority
CRITICAL == 0
HIGH == 1
MEDIUM == 2
LOW == 3

Priorities == {CRITICAL, HIGH, MEDIUM, LOW}
\* priorities passed to schedule
SchedulePriorities == {CRITICAL, HIGH, LOW}
TaskIds == 1..MaxTasks

\* --- PriorityQueue: one FIFO bucket per priority -------------------------
emptyQueue == [p \in Priorities |-> << >>]

enqueue(q, t, p) == [q EXCEPT ![p] = Append(@, t)]

isEmpty(q) == \A p \in Priorities : q[p] = << >>

size(q) == Len(q[CRITICAL]) + Len(q[HIGH]) + Len(q[MEDIUM]) + Len(q[LOW])

\* the loop over [CRITICAL, HIGH, MEDIUM, LOW] stops at the first non-empty
\* bucket
firstBucket_leastUrgent(q) ==
  CHOOSE p \in Priorities :
    q[p] # << >> /\ \A r \in Priorities : r > p => q[r] = << >>

firstBucket(q) ==
  CHOOSE p \in Priorities :
    q[p] # << >> /\ \A r \in Priorities : r < p => q[r] = << >>

peek(q) == IF isEmpty(q) THEN Undefined ELSE Head(q[firstBucket(q)])

dequeue_newestFirst(q) ==
  IF isEmpty(q) THEN q
  ELSE [q EXCEPT ![firstBucket(q)] = SubSeq(@, 1, Len(@) - 1)]

dequeue(q) == IF isEmpty(q) THEN q ELSE [q EXCEPT ![firstBucket(q)] = Tail(@)]

inQueue(q, t) == \E p \in Priorities : \E i \in DOMAIN q[p] : q[p][i] = t

\* the loop over the buckets stops at the first one that holds t and
\* splices out its first occurrence there
remove(q, t) ==
  IF ~inQueue(q, t) THEN q
  ELSE LET p == CHOOSE b \in Priorities :
                  /\ \E i \in DOMAIN q[b] : q[b][i] = t
                  /\ \A r \in Priorities :
                       r < b => \A i \in DOMAIN q[r] : q[r][i] # t
           k == CHOOSE i \in DOMAIN q[p] :
                  q[p][i] = t /\ \A j \in 1..(i - 1) : q[p][j] # t
       IN [q EXCEPT ![p] = SubSeq(@, 1, k - 1) \o SubSeq(@, k + 1, Len(@))]

\* toArray: the buckets concatenated from CRITICAL to LOW
toArray(q) == q[CRITICAL] \o q[HIGH] \o q[MEDIUM] \o q[LOW]

\* --- PriorityQueue used on its own ----------------------------------------
MaxPuts == 4

NoQueueCall == [op |-> "none", arg |-> Undefined, ret |-> Undefined]

InitQueue ==
  pq = [queues |-> emptyQueue, puts |-> 0, takes |-> 0, call |-> NoQueueCall]

\* enqueue of a fresh task object; tasks are numbered in enqueue order
Enqueue(p) ==
  /\ pq.puts < MaxPuts
  /\ pq' = [queues |-> enqueue(pq.queues, pq.puts + 1, p),
            puts |-> pq.puts + 1, takes |-> pq.takes,
            call |-> [op |-> "enqueue", arg |-> p, ret |-> Undefined]]

Dequeue ==
  pq' = [queues |-> dequeue(pq.queues), puts |-> pq.puts,
         takes |-> IF isEmpty(pq.queues) THEN pq.takes ELSE pq.takes + 1,
         call |-> [op |-> "dequeue", arg |-> Undefined, ret |-> peek(pq.queues)]]

Peek ==
  pq' = [pq EXCEPT !.call = [op |-> "peek", arg |-> Undefined,
                             ret |-> peek(pq.queues)]]

Remove(t) ==
  pq' = [queues |-> remove(pq.queues, t), puts |-> pq.puts,
         takes |-> IF inQueue(pq.queues, t) THEN pq.takes + 1 ELSE pq.takes,
         call |-> [op |-> "remove", arg |-> t, ret |-> inQueue(pq.queues, t)]]

\* --- Scheduler -----------------------------------------------------------
MaxWaits == 1
WaitIds == 1..MaxWaits
\* ids given to waitFor: the scheduled tasks and one id no task has
WaitTargets == 1..(MaxTasks + 1)

NoWait == [taskId |-> Undefined, timer |-> "idle", subscribed |-> FALSE,
           resolves |-> 0, result |-> "none", calledAt |-> Undefined,
           settledAt |-> Undefined]

\* the promise of a waitFor call keeps the value of its first resolve()
settle(wait, value, at) ==
  [wait EXCEPT !.subscribed = FALSE,
               !.resolves = @ + 1,
               !.result = IF wait.resolves = 0 THEN value ELSE @,
               !.settledAt = IF wait.resolves = 0 THEN at ELSE @]

deliver_anyRecord(ws, t, at) ==
  [w \in WaitIds |->
     IF ws[w].subscribed
     THEN [settle(ws[w], "ok", at) EXCEPT !.timer = "cleared"]
     ELSE ws[w]]

\* completionStream.next(record of t): the subscriber of every pending
\* waitFor runs; the one waiting for t clears its timer, unsubscribes and
\* resolves
deliver(ws, t, at) ==
  [w \in WaitIds |->
     IF ws[w].subscribed /\ ws[w].taskId = t
     THEN [settle(ws[w], "ok", at) EXCEPT !.timer = "cleared"]
     ELSE ws[w]]

\* the mutable fields of the scheduler, threaded through one handler run
schedState ==
  [queue |-> queue, running |-> running, work |-> work, timer |-> timeoutTimer,
   completedCount |-> completedCount, failedCount |-> failedCount,
   metrics |-> metrics, completionStream |-> completionStream,
   waiters |-> waiters, unhandled |-> unhandled,
   startLog |-> startLog, outcomeLog |-> outcomeLog, waits |-> waits]

Publish(s) ==
  /\ queue' = s.queue
  /\ running' = s.running
  /\ work' = s.work
  /\ timeoutTimer' = s.timer
  /\ completedCount' = s.completedCount
  /\ failedCount' = s.failedCount
  /\ metrics' = s.metrics
  /\ completionStream' = s.completionStream
  /\ waiters' = s.waiters
  /\ unhandled' = s.unhandled
  /\ startLog' = s.startLog
  /\ outcomeLog' = s.outcomeLog
  /\ waits' = s.waits

\* the two averages of ISchedulerMetrics are quotients of wall-clock sums
\* and are not part of the model
updateMetrics(s) ==
  [s EXCEPT !.metrics = [queuedTasks |-> size(s.queue),
                         runningTasks |-> Cardinality(s.running),
                         completedTasks |-> s.completedCount,
                         failedTasks |-> s.failedCount]]

\* executeTask up to its await: arm the timeout, start the work, register
\* its promise in the running map
executeTaskBegin(s, t) ==
  updateMetrics([s EXCEPT !.timer[t] = "armed",
                          !.work[t] = "executing",
                          !.startLog = Append(@, t),
                          !.running = @ \cup {t}])

\* processQueue up to its first suspension (or its end); a suspended loop
\* is the set of work promises it races on
processQueue_uncapped(s, active) ==
  IF ~active \/ isEmpty(s.queue) THEN s
  ELSE executeTaskBegin([s EXCEPT !.queue = dequeue(@)], peek(s.queue))

RECURSIVE processQueue(_, _)
processQueue(s, active) ==
  IF ~active \/ isEmpty(s.queue) THEN s
  ELSE IF Cardinality(s.running) >= maxConcurrent
       THEN [s EXCEPT !.waiters = @ \cup {s.running}]
       ELSE processQueue(
              executeTaskBegin([s EXCEPT !.queue = dequeue(@)], peek(s.queue)),
              active)

executeTaskEnd_noContinue(s, t, outcome, active) ==
  LET counted ==
        IF outcome = "success"
        THEN [s EXCEPT !.completedCount = @ + 1,
                       !.completionStream = Append(@, t),
                       !.waits = deliver(@, t, Len(s.completionStream) + 1),
                       !.outcomeLog = Append(@, <<t, outcome>>)]
        ELSE [s EXCEPT !.failedCount = @ + 1,
                       !.outcomeLog = Append(@, <<t, outcome>>)]
  IN updateMetrics([counted EXCEPT !.running = @ \ {t}])

executeTaskEnd_alwaysContinues(s, t, outcome, active) ==
  LET counted ==
        IF outcome = "success"
        THEN [s EXCEPT !.completedCount = @ + 1,
                       !.completionStream = Append(@, t),
                       !.waits = deliver(@, t, Len(s.completionStream) + 1),
                       !.outcomeLog = Append(@, <<t, outcome>>)]
        ELSE [s EXCEPT !.failedCount = @ + 1,
                       !.outcomeLog = Append(@, <<t, outcome>>)]
      released == updateMetrics([counted EXCEPT !.running = @ \ {t}])
  IN processQueue(released, TRUE)

\* executeTask after its race settled: try/catch branch, then finally
executeTaskEnd(s, t, outcome, active) ==
  LET counted ==
        IF outcome = "success"
        THEN [s EXCEPT !.completedCount = @ + 1,
                       !.completionStream = Append(@, t),
                       !.waits = deliver(@, t, Len(s.completionStream) + 1),
                       !.outcomeLog = Append(@, <<t, outcome>>)]
        ELSE [s EXCEPT !.failedCount = @ + 1,
                       !.outcomeLog = Append(@, <<t, outcome>>)]
      released == updateMetrics([counted EXCEPT !.running = @ \ {t}])
  IN IF active THEN processQueue(released, active) ELSE released

\* the processQueue loops suspended on a race that holds t's work promise:
\* a fulfilled promise resumes them at the loop head, a rejected one makes
\* their await throw out of processQueue, whose promise nobody handles
resumeLoops(s, t, fulfilled, active) ==
  LET woken == {w \in s.waiters : t \in w}
      rest == [s EXCEPT !.waiters = @ \ woken]
  IN IF woken = {} THEN s
     ELSE IF fulfilled THEN processQueue(rest, active)
     ELSE [rest EXCEPT !.unhandled = TRUE]

Schedule_enqueuesTwice(p) ==
  /\ taskCounter < MaxTasks
  /\ LET id == taskCounter + 1
         queued == updateMetrics([schedState EXCEPT
                                    !.queue = enqueue(enqueue(@, id, p), id, p)])
     IN /\ taskCounter' = id
        /\ tasks' = Append(tasks, [priority |-> p, whileActive |-> isRunning,
                                   epoch |-> startCount])
        /\ Publish(IF isRunning THEN processQueue(queued, isRunning) ELSE queued)
        /\ UNCHANGED <<isRunning, maxConcurrent, startCount, cancelled>>

Schedule(p) ==
  /\ taskCounter < MaxTasks
  /\ LET id == taskCounter + 1
         queued == updateMetrics([schedState EXCEPT !.queue = enqueue(@, id, p)])
     IN /\ taskCounter' = id
        /\ tasks' = Append(tasks, [priority |-> p, whileActive |-> isRunning,
                                   epoch |-> startCount])
        /\ Publish(IF isRunning THEN processQueue(queued, isRunning) ELSE queued)
        /\ UNCHANGED <<isRunning, maxConcurrent, startCount, cancelled>>

Cancel_staleMetrics(t) ==
  LET removed == inQueue(queue, t)
      s == [schedState EXCEPT !.queue = remove(@, t)]
  IN /\ Publish(s)
     /\ cancelled' = IF removed THEN cancelled \cup {t} ELSE cancelled
     /\ UNCHANGED <<isRunning, maxConcurrent, startCount, taskCounter, tasks>>

Cancel_admitted(t) ==
  LET removed == inQueue(queue, t) \/ t \in running
      s == [schedState EXCEPT !.queue = remove(@, t), !.running = @ \ {t}]
  IN /\ Publish(IF removed THEN updateMetrics(s) ELSE s)
     /\ cancelled' = IF removed THEN cancelled \cup {t} ELSE cancelled
     /\ UNCHANGED <<isRunning, maxConcurrent, startCount, taskCounter, tasks>>

Cancel(t) ==
  LET removed == inQueue(queue, t)
      s == [schedState EXCEPT !.queue = remove(@, t)]
  IN /\ Publish(IF removed THEN updateMetrics(s) ELSE s)
     /\ cancelled' = IF removed THEN cancelled \cup {t} ELSE cancelled
     /\ UNCHANGED <<isRunning, maxConcurrent, startCount, taskCounter, tasks>>

\* start(), the calls that switch the scheduler on limited to `limit`
StartWithin(limit) ==
  /\ isRunning \/ startCount < limit
  /\ IF isRunning
     THEN /\ Publish(schedState)
          /\ UNCHANGED <<isRunning, startCount>>
     ELSE /\ isRunning' = TRUE
          /\ startCount' = startCount + 1
          /\ Publish(processQueue(schedState, TRUE))
  /\ UNCHANGED <<maxConcurrent, taskCounter, tasks, cancelled>>

Start == StartWithin(MaxStarts)

Stop ==
  /\ isRunning' = FALSE
  /\ Publish(schedState)
  /\ UNCHANGED <<maxConcurrent, startCount, taskCounter, tasks, cancelled>>

WorkResolves_countsLate(t) ==
  /\ work[t] = "executing"
  /\ LET s0 == [schedState EXCEPT !.work[t] = "resolved"]
         s1 == executeTaskEnd(s0, t, "success", isRunning)
     IN Publish(resumeLoops(s1, t, TRUE, isRunning))
  /\ UNCHANGED <<isRunning, maxConcurrent, startCount, taskCounter, tasks,
                 cancelled>>

\* the promise returned by task.execute() is fulfilled
WorkResolves(t) ==
  /\ work[t] = "executing"
  /\ LET s0 == [schedState EXCEPT !.work[t] = "resolved"]
         s1 == IF t \in running
               THEN executeTaskEnd(s0, t, "success", isRunning) ELSE s0
     IN Publish(resumeLoops(s1, t, TRUE, isRunning))
  /\ UNCHANGED <<isRunning, maxConcurrent, startCount, taskCounter, tasks,
                 cancelled>>

\* the promise returned by task.execute() is rejected
WorkRejects(t) ==
  /\ work[t] = "executing"
  /\ LET s0 == [schedState EXCEPT !.work[t] = "rejected"]
         s1 == IF t \in running
               THEN executeTaskEnd(s0, t, "failure", isRunning) ELSE s0
     IN Publish(resumeLoops(s1, t, FALSE, isRunning))
  /\ UNCHANGED <<isRunning, maxConcurrent, startCount, taskCounter, tasks,
                 cancelled>>

\* the setTimeout callback of executeTask rejects timeoutPromise while the
\* race is undecided; once the work has settled the race has its winner and
\* the callback changes nothing
TaskTimeoutFires(t) ==
  /\ timeoutTimer[t] = "armed"
  /\ t \in running
  /\ \E settled \in {executeTaskEnd([schedState EXCEPT !.timer[t] = "fired"],
                                     t, "timeout", isRunning)} :
       Publish(settled)
  /\ UNCHANGED <<isRunning, maxConcurrent, startCount, taskCounter, tasks,
                 cancelled>>

\* waitFor: arm the wait's own timer and subscribe to completionStream, a
\* Subject, which replays nothing
WaitFor(w, id) ==
  /\ waits[w] = NoWait
  /\ \A v \in WaitIds : v < w => waits[v] # NoWait
  /\ Publish([schedState EXCEPT
               !.waits[w] = [NoWait EXCEPT !.taskId = id,
                                           !.timer = "armed",
                                           !.subscribed = TRUE,
                                           !.calledAt = Len(completionStream)]])
  /\ UNCHANGED <<isRunning, maxConcurrent, startCount, taskCounter, tasks,
                 cancelled>>

\* the setTimeout callback of waitFor: unsubscribe and resolve with
\* TASK_TIMEOUT
WaitTimeoutFires(w) ==
  /\ waits[w].timer = "armed"
  /\ Publish([schedState EXCEPT
               !.waits[w] = [settle(@, "TASK_TIMEOUT", Len(completionStream))
                               EXCEPT !.timer = "fired"]])
  /\ UNCHANGED <<isRunning, maxConcurrent, startCount, taskCounter, tasks,
                 cancelled>>

\* the setTimeout callback is never cleared: when the work settled first it
\* still runs and rejects timeoutPromise, which the settled race ignores
TaskTimeoutLate(t) ==
  /\ timeoutTimer[t] = "armed"
  /\ t \notin running
  /\ Publish([schedState EXCEPT !.timer[t] = "fired"])
  /\ UNCHANGED <<isRunning, maxConcurrent, startCount, taskCounter, tasks,
                 cancelled>>

InitScheduler ==
  /\ isRunning = FALSE
  /\ maxConcurrent \in 1..MaxCap
  /\ queue = emptyQueue
  /\ taskCounter = 0
  /\ tasks = << >>
  /\ running = {}
  /\ work = [t \in TaskIds |-> "idle"]
  /\ timeoutTimer = [t \in TaskIds |-> "idle"]
  /\ completedCount = 0
  /\ failedCount = 0
  /\ metrics = [queuedTasks |-> 0, runningTasks |-> 0, completedTasks |-> 0,
                failedTasks |-> 0]
  /\ completionStream = << >>
  /\ waiters = {}
  /\ unhandled = FALSE
  /\ startLog = << >>
  /\ outcomeLog = << >>
  /\ startCount = 0
  /\ cancelled = {}
  /\ waits = [w \in WaitIds |-> NoWait]

\* ========================================================================
\* ROUTER
\* ========================================================================
MaxRoutes == 2

\* config.models, in Map insertion order
Models ==
  << [modelId |-> "claude-3-opus", provider |-> "anthropic",
      capabilities |-> {"safety_critical", "reasoning"},
      costPerMillionTokens |-> 15, averageLatencyMs |-> 500,
      isAvailable |-> TRUE],
     [modelId |-> "gpt-5.2", provider |-> "openai",
      capabilities |-> {"code_generation", "fast_response"},
      costPerMillionTokens |-> 10, averageLatencyMs |-> 300,
      isAvailable |-> TRUE],
     [modelId |-> "llama-3-8b", provider |-> "local",
      capabilities |-> {"fast_response", "cost_optimized"},
      costPerMillionTokens |-> 0, averageLatencyMs |-> 100,
      isAvailable |-> TRUE] >>

\* the members of a sequence
Range(seq) == {seq[i] : i \in DOMAIN seq}

ModelIds == {Models[i].modelId : i \in DOMAIN Models}
\* modelId arguments of setModelHealth
HealthInputs == {"gpt-5.2", "llama-3-8b"}

categoryModelMap ==
  [safety_review |-> <<"anthropic">>,
   code_generation |-> <<"openai", "anthropic">>,
   code_review |-> <<"anthropic", "openai">>,
   architecture |-> <<"anthropic", "openai">>,
   general |-> <<"openai", "anthropic", "google">>,
   fast_lookup |-> <<"local", "google">>]

\* request.task: its length and whether trim() leaves nothing
EmptyTask == [length |-> 0, blank |-> TRUE]
BlankTask == [length |-> 3, blank |-> TRUE]
ShortTask == [length |-> 40, blank |-> FALSE]
LongTask == [length |-> 400000, blank |-> FALSE]

NoProvider == "undefined"
NoAgent == "undefined"

\* an IRoutingRequest; requiredCapabilities {} stands for undefined and []
BaseRequest ==
  [id |-> "route-1", task |-> ShortTask, category |-> "general",
   priority |-> MEDIUM, requiredCapabilities |-> {},
   maxCostCents |-> Undefined, maxLatencyMs |-> Undefined,
   preferredProvider |-> NoProvider, agentId |-> NoAgent]

RouteRequests ==
  { BaseRequest,
    [BaseRequest EXCEPT !.category = "safety_review"],
    [BaseRequest EXCEPT !.priority = CRITICAL],
    [BaseRequest EXCEPT !.category = "code_generation",
                        !.requiredCapabilities = {"code_generation"},
                        !.agentId = "executor"],
    [BaseRequest EXCEPT !.priority = CRITICAL,
                        !.requiredCapabilities = {"code_generation"},
                        !.agentId = "executor"],
    [BaseRequest EXCEPT !.category = "fast_lookup",
                        !.requiredCapabilities = {"fast_response"}],
    [BaseRequest EXCEPT !.requiredCapabilities = {"vision"}],
    [BaseRequest EXCEPT !.task = EmptyTask],
    [BaseRequest EXCEPT !.task = BlankTask],
    [BaseRequest EXCEPT !.maxCostCents = 0],
    [BaseRequest EXCEPT !.task = LongTask, !.maxCostCents = 120],
    [BaseRequest EXCEPT !.task = LongTask, !.maxCostCents = 100],
    [BaseRequest EXCEPT !.maxLatencyMs = 300, !.preferredProvider = "local"] }

RouteOk(id, modelId, retryCount) ==
  [op |-> "route", id |-> id, ok |-> TRUE, code |-> "", modelId |-> modelId,
   retryCount |-> retryCount]
RouteErr(id, code) ==
  [op |-> "route", id |-> id, ok |-> FALSE, code |-> code, modelId |-> "",
   retryCount |-> 0]
NoRouteResult ==
  [op |-> "none", id |-> "", ok |-> TRUE, code |-> "", modelId |-> "",
   retryCount |-> 0]

validateRequest_costOnly(request) ==
  IF request.maxCostCents # Undefined /\ request.maxCostCents <= 0 THEN FALSE
  ELSE TRUE

validateRequest(request) ==
  IF request.task.blank THEN FALSE
  ELSE IF request.maxCostCents # Undefined /\ request.maxCostCents <= 0 THEN FALSE
  ELSE TRUE

Ceil4(n) == (n + 3) \div 4

\* estimateCost in millionths of a cent:
\* (tokens / 1_000_000) * costPerMillionTokens * 100 cents
estimateCost(request, model) ==
  (Ceil4(request.task.length) + 500) * model.costPerMillionTokens * 100

\* calculateActualCost of callModel's token usage, in millionths of a cent
calculateActualCost(request, model) ==
  (Ceil4(request.task.length) + 100) * model.costPerMillionTokens * 100

passesFilter_ignoresHealth(request, model, health) ==
  /\ request.requiredCapabilities \subseteq model.capabilities
  /\ request.maxCostCents # Undefined =>
       ~(estimateCost(request, model) > request.maxCostCents * 1000000)
  /\ request.maxLatencyMs # Undefined =>
       ~(model.averageLatencyMs > request.maxLatencyMs)

passesFilter(request, model, health) ==
  /\ health[model.modelId]
  /\ request.requiredCapabilities \subseteq model.capabilities
  /\ request.maxCostCents # Undefined =>
       ~(estimateCost(request, model) > request.maxCostCents * 1000000)
  /\ request.maxLatencyMs # Undefined =>
       ~(model.averageLatencyMs > request.maxLatencyMs)

getFilteredModels(request, health) ==
  SelectSeq(Models, LAMBDA m : passesFilter(request, m, health))

providerRank(preferredProviders, provider) ==
  IF \E i \in DOMAIN preferredProviders : preferredProviders[i] = provider
  THEN (CHOOSE i \in DOMAIN preferredProviders : preferredProviders[i] = provider) - 1
  ELSE 999

\* the comparator of rankModels: negative when a sorts before b
compareModels(a, b, request) ==
  LET preferredProviders == categoryModelMap[request.category]
      aRank == providerRank(preferredProviders, a.provider)
      bRank == providerRank(preferredProviders, b.provider)
  IN IF aRank # bRank THEN aRank - bRank
     ELSE IF request.preferredProvider # NoProvider /\ a.provider = request.preferredProvider
     THEN -1
     ELSE IF request.preferredProvider # NoProvider /\ b.provider = request.preferredProvider
     THEN 1
     ELSE a.costPerMillionTokens - b.costPerMillionTokens

\* Array.prototype.sort is stable: insert each element after the last
\* element that does not sort after it
RECURSIVE insertSorted(_, _, _)
insertSorted(sorted, m, request) ==
  IF sorted = << >> THEN <<m>>
  ELSE IF compareModels(m, sorted[Len(sorted)], request) < 0
       THEN Append(insertSorted(SubSeq(sorted, 1, Len(sorted) - 1), m, request),
                   sorted[Len(sorted)])
       ELSE Append(sorted, m)

RECURSIVE rankModels(_, _)
rankModels(models, request) ==
  IF models = << >> THEN << >>
  ELSE insertSorted(rankModels(SubSeq(models, 1, Len(models) - 1), request),
                    models[Len(models)], request)

\* Router.rankModels applied to a registry a caller may configure
MaxRegistry == 3

\* a second OpenAI backend beside the three of the test registry
ModelPool ==
  Range(Models) \cup
    {[modelId |-> "gpt-5.2-mini", provider |-> "openai",
      capabilities |-> {"code_generation", "fast_response"},
      costPerMillionTokens |-> 5, averageLatencyMs |-> 200,
      isAvailable |-> TRUE]}

\* the survivors handed to rankModels, in registry order
Registries ==
  {reg \in UNION {[1..n -> ModelPool] : n \in 1..MaxRegistry} :
     \A i, j \in DOMAIN reg : i # j => reg[i] # reg[j]}

TaskCategories == DOMAIN categoryModelMap

RankRequests ==
  {[BaseRequest EXCEPT !.category = c, !.preferredProvider = p] :
     c \in TaskCategories, p \in {NoProvider, "openai", "local"}}

NoRanking == [models |-> << >>, request |-> BaseRequest, ranked |-> << >>]

RankModels(models, request) ==
  ranking' = [models |-> models, request |-> request,
              ranked |-> rankModels(models, request)]

determineApprovalLevel_executorFirst(request) ==
  IF request.category = "safety_review" THEN "approve"
  ELSE IF "code_generation" \in request.requiredCapabilities
          /\ request.agentId = "executor" THEN "approve"
  ELSE IF request.priority = CRITICAL THEN "notify"
  ELSE "auto"

determineApprovalLevel(request) ==
  IF request.category = "safety_review" THEN "approve"
  ELSE IF request.priority = CRITICAL THEN "notify"
  ELSE IF "code_generation" \in request.requiredCapabilities
          /\ request.agentId = "executor" THEN "approve"
  ELSE "auto"

\* makeRoutingDecision: the ranked candidates (selected model first, then the
\* fallback chain) and the approval level; << >> is NO_AVAILABLE_MODEL
makeRoutingDecision(request, health) ==
  LET rankedModels == rankModels(getFilteredModels(request, health), request)
  IN [requestId |-> request.id,
      candidates |-> rankedModels,
      approvalLevel |-> determineApprovalLevel(request)]

updateRouterMetrics(m, ok, modelId, costE6) ==
  IF ok
  THEN [m EXCEPT !.totalRequests = @ + 1,
                 !.successfulRequests = @ + 1,
                 !.totalCostE6 = @ + costE6,
                 !.modelUsage[modelId] = @ + 1]
  ELSE [m EXCEPT !.totalRequests = @ + 1,
                 !.failedRequests = @ + 1]

\* an approval for the routed request has been granted by the gate
approvalGranted(requestId) ==
  \E i \in DOMAIN requests :
    /\ requests[i].operation = requestId
    /\ requests[i].status \in {"approved", "auto_approved"}

\* callModel is entered for one candidate
invocation(request, decision, model) ==
  [requestId |-> request.id, modelId |-> model.modelId,
   approvalLevel |-> decision.approvalLevel,
   approved |-> approvalGranted(request.id)]

\* route up to the first await of executeWithFallback; the caller awaits one
\* route before it makes the next
Route(request) ==
  /\ routeCounter < MaxRoutes
  /\ inflight = {}
  /\ routeCounter' = routeCounter + 1
  /\ IF ~validateRequest(request)
     THEN /\ routeResult' = RouteErr(request.id, "INVALID_REQUEST")
          /\ UNCHANGED <<routerRequestStream, routerMetrics, inflight, invocations>>
     ELSE LET decision == makeRoutingDecision(request, modelHealth)
          IN /\ routerRequestStream' = Append(routerRequestStream, request.id)
             /\ IF decision.candidates = << >>
                THEN /\ routeResult' = RouteErr(request.id, "NO_AVAILABLE_MODEL")
                     /\ routerMetrics' = updateRouterMetrics(routerMetrics, FALSE, "", 0)
                     /\ UNCHANGED <<inflight, invocations>>
                ELSE /\ inflight' = inflight \cup
                          {[call |-> routeCounter + 1, request |-> request,
                            decision |-> decision, index |-> 1, retryCount |-> 0]}
                     /\ invocations' = Append(invocations,
                          invocation(request, decision, decision.candidates[1]))
                     /\ routeResult' = NoRouteResult
                     /\ UNCHANGED routerMetrics
  /\ UNCHANGED modelHealth

\* the awaited callModel returns a response: executeWithFallback returns ok,
\* route updates the metrics
CallModelReturns(r) ==
  /\ r \in inflight
  /\ LET model == r.decision.candidates[r.index]
         selected == r.decision.candidates[1]
     IN /\ routerMetrics' = updateRouterMetrics(routerMetrics, TRUE,
                              selected.modelId, calculateActualCost(r.request, model))
        /\ routeResult' = RouteOk(r.request.id, model.modelId, r.retryCount)
  /\ inflight' = inflight \ {r}
  /\ UNCHANGED <<modelHealth, routerRequestStream, invocations, routeCounter>>

CallModelThrows_noFallback(r) ==
  /\ r \in inflight
  /\ inflight' = inflight \ {r}
  /\ routerMetrics' = updateRouterMetrics(routerMetrics, FALSE, "", 0)
  /\ routeResult' = RouteErr(r.request.id, "ALL_MODELS_FAILED")
  /\ UNCHANGED <<modelHealth, routerRequestStream, routeCounter, invocations>>

\* the awaited callModel throws: next candidate, or ALL_MODELS_FAILED
CallModelThrows(r) ==
  /\ r \in inflight
  /\ IF r.index < Len(r.decision.candidates)
     THEN /\ inflight' = (inflight \ {r}) \cup
                {[r EXCEPT !.index = @ + 1, !.retryCount = @ + 1]}
          /\ invocations' = Append(invocations,
               invocation(r.request, r.decision, r.decision.candidates[r.index + 1]))
          /\ routeResult' = NoRouteResult
          /\ UNCHANGED routerMetrics
     ELSE /\ inflight' = inflight \ {r}
          /\ routerMetrics' = updateRouterMetrics(routerMetrics, FALSE, "", 0)
          /\ routeResult' = RouteErr(r.request.id, "ALL_MODELS_FAILED")
          /\ UNCHANGED invocations
  /\ UNCHANGED <<modelHealth, routerRequestStream, routeCounter>>

SetModelHealth(modelId, isHealthy) ==
  /\ modelHealth' = IF modelId \in DOMAIN modelHealth
                    THEN [modelHealth EXCEPT ![modelId] = isHealthy]
                    ELSE modelHealth
  /\ routeResult' = NoRouteResult
  /\ UNCHANGED <<routerRequestStream, routerMetrics, inflight, invocations,
                 routeCounter>>

InitRouter ==
  /\ modelHealth =
       [id \in ModelIds |->
          Models[CHOOSE i \in DOMAIN Models : Models[i].modelId = id].isAvailable]
  /\ routerRequestStream = << >>
  /\ routerMetrics = [totalRequests |-> 0, successfulRequests |-> 0,
                      failedRequests |-> 0, totalCostE6 |-> 0,
                      modelUsage |-> [id \in ModelIds |-> 0]]
  /\ inflight = {}
  /\ invocations = << >>
  /\ routeCounter = 0
  /\ routeResult = NoRouteResult
  /\ ranking = NoRanking

\* ========================================================================
\* RESOURCE MONITOR
\* ========================================================================
\* Bounds of the monitor model.  Times are clock ticks: the one-minute rate
\* window, the five-minute history window and the polling period keep their
\* order, not their length.
MaxMonitorTime == 2
MinuteMs == 1
FiveMinutesMs == 2
MonitorPollMs == 1
MaxUsageTotal == 2
MaxApiCalls == 1

\* IResourceLimits of the monitor under test
maxTokensPerMinute == 1
maxCostCentsPerMinute == 1
maxActiveAgents == 2
maxAgentTurns == 0
stuckThresholdMs == 1
budgetCents == 2

AgentIds == {"agent-1", "agent-2"}
AgentTasks == {"task-1"}
AgentStatuses == {"running", "waiting", "stuck"}
\* the statuses a caller reports
StatusInputs == {"waiting"}
Providers == {"openai"}
\* <<tokens, costCents>> given to recordTokenUsage
TokenUsageInputs == {<<2, 0>>, <<0, 2>>}
PendingInputs == {2}

NoMonitorResult == [op |-> "none"]

\* the entries of a history younger than `window`, as filter() keeps them
recent(history, t, window) ==
  SelectSeq(history, LAMBDA h : h.timestamp > t - window)

cleanupHistory(history, t) == recent(history, t, FiveMinutesMs)

RECURSIVE sumField(_, _)
sumField(history, field) ==
  IF history = << >> THEN 0
  ELSE Head(history)[field] + sumField(Tail(history), field)

\* apiCallsPerMinute: the providers called within the last minute, counted
apiCallsPerMinute(calls, t) ==
  LET recentApiCalls == recent(calls, t, MinuteMs)
      called == {recentApiCalls[i].provider : i \in DOMAIN recentApiCalls}
  IN [p \in called |->
        Cardinality({i \in DOMAIN recentApiCalls : recentApiCalls[i].provider = p})]

\* createSnapshot over the monitor's fields as they are when it is called.
\* memoryUsageMB, a reading of the platform's heap, is left out.
createSnapshot(t, agents, tokens, calls, totalTokens, totalCost) ==
  [timestamp |-> t,
   tokenUsage |->
     [totalTokens |-> totalTokens,
      tokensPerMinute |-> sumField(recent(tokens, t, MinuteMs), "tokens"),
      costCentsPerMinute |-> sumField(recent(tokens, t, MinuteMs), "costCents"),
      budgetRemainingCents |-> budgetCents - totalCost],
   activeAgents |-> agents,
   pendingTasks |-> 0,
   apiCallsPerMinute |-> apiCallsPerMinute(calls, t)]

getSnapshot == snapshot

getActiveAgents == activeAgents

agentCapReached_above(agents) == Cardinality(DOMAIN agents) > maxActiveAgents

\* the limit check of startAgent and canStartAgent
agentCapReached(agents) == Cardinality(DOMAIN agents) >= maxActiveAgents

RecordTokenUsage(agentId, tokens, costCents) ==
  LET history == cleanupHistory(
                   Append(tokenHistory, [timestamp |-> now, tokens |-> tokens,
                                         costCents |-> costCents]), now)
      agents == IF agentId \in DOMAIN activeAgents
                THEN [activeAgents EXCEPT
                        ![agentId].tokensConsumed = @ + tokens,
                        ![agentId].turnsExecuted = @ + 1]
                ELSE activeAgents
  IN /\ totalTokensConsumed + totalCostCents + tokens + costCents <= MaxUsageTotal
     /\ tokenHistory' = history
     /\ totalTokensConsumed' = totalTokensConsumed + tokens
     /\ totalCostCents' = totalCostCents + costCents
     /\ apiCallHistory' = cleanupHistory(apiCallHistory, now)
     /\ activeAgents' = agents
     /\ snapshot' = createSnapshot(now, agents, history, apiCallHistory',
                                   totalTokensConsumed', totalCostCents')
     /\ monitorResult' = NoMonitorResult
     /\ UNCHANGED <<nextPollAt, lastPendingTasks>>

RecordApiCall(provider) ==
  /\ Len(apiCallHistory) < MaxApiCalls
  /\ apiCallHistory' = cleanupHistory(
                         Append(apiCallHistory,
                                [timestamp |-> now, provider |-> provider]), now)
  /\ tokenHistory' = cleanupHistory(tokenHistory, now)
  /\ snapshot' = createSnapshot(now, activeAgents, tokenHistory',
                                apiCallHistory', totalTokensConsumed,
                                totalCostCents)
  /\ monitorResult' = NoMonitorResult
  /\ UNCHANGED <<activeAgents, totalTokensConsumed, totalCostCents,
                 nextPollAt, lastPendingTasks>>

StartAgent(agentId, taskId) ==
  IF agentCapReached(activeAgents)
  THEN /\ monitorResult' = [op |-> "startAgent", started |-> FALSE]
       /\ UNCHANGED <<activeAgents, tokenHistory, apiCallHistory,
                      totalTokensConsumed, totalCostCents, snapshot,
                      nextPollAt, lastPendingTasks>>
  ELSE LET agent == [agentId |-> agentId, taskId |-> taskId,
                     startedAt |-> now, turnsExecuted |-> 0,
                     tokensConsumed |-> 0, status |-> "running"]
       IN /\ activeAgents' = MapSet(activeAgents, agentId, agent)
          /\ snapshot' = createSnapshot(now, activeAgents', tokenHistory,
                                        apiCallHistory, totalTokensConsumed,
                                        totalCostCents)
          /\ monitorResult' = [op |-> "startAgent", started |-> TRUE]
          /\ UNCHANGED <<tokenHistory, apiCallHistory, totalTokensConsumed,
                         totalCostCents, nextPollAt, lastPendingTasks>>

StopAgent(agentId) ==
  /\ activeAgents' = MapDelete(activeAgents, agentId)
  /\ snapshot' = createSnapshot(now, activeAgents', tokenHistory,
                                apiCallHistory, totalTokensConsumed,
                                totalCostCents)
  /\ monitorResult' = NoMonitorResult
  /\ UNCHANGED <<tokenHistory, apiCallHistory, totalTokensConsumed,
                 totalCostCents, nextPollAt, lastPendingTasks>>

UpdateAgentStatus(agentId, status) ==
  /\ IF agentId \in DOMAIN activeAgents
     THEN /\ activeAgents' = [activeAgents EXCEPT ![agentId].status = status]
          /\ snapshot' = createSnapshot(now, activeAgents', tokenHistory,
                                        apiCallHistory, totalTokensConsumed,
                                        totalCostCents)
     ELSE UNCHANGED <<activeAgents, snapshot>>
  /\ monitorResult' = NoMonitorResult
  /\ UNCHANGED <<tokenHistory, apiCallHistory, totalTokensConsumed,
                 totalCostCents, nextPollAt, lastPendingTasks>>

exceedsLimits_turnsOnly(agent, t) == agent.turnsExecuted > maxAgentTurns

\* the kill condition of killStuckAgents
exceedsLimits(agent, t) ==
  \/ t - agent.startedAt > stuckThresholdMs
  \/ agent.turnsExecuted > maxAgentTurns

KillStuckAgents ==
  LET killed == {id \in DOMAIN activeAgents : exceedsLimits(activeAgents[id], now)}
  IN /\ activeAgents' = [id \in DOMAIN activeAgents \ killed |-> activeAgents[id]]
     /\ snapshot' = IF killed # {}
                    THEN createSnapshot(now, activeAgents', tokenHistory,
                                        apiCallHistory, totalTokensConsumed,
                                        totalCostCents)
                    ELSE snapshot
     /\ monitorResult' = [op |-> "killStuckAgents", killed |-> killed]
     /\ UNCHANGED <<tokenHistory, apiCallHistory, totalTokensConsumed,
                    totalCostCents, nextPollAt, lastPendingTasks>>

Allowed == [allowed |-> TRUE, reason |-> "none"]
Denied(reason) == [allowed |-> FALSE, reason |-> reason]

\* ResourceMonitor.canProceed, decided on the current snapshot
monitorCanProceed(s) ==
  IF s.tokenUsage.tokensPerMinute > maxTokensPerMinute
  THEN Denied("Token rate limit exceeded")
  ELSE IF s.tokenUsage.costCentsPerMinute > maxCostCentsPerMinute
  THEN Denied("Cost rate limit exceeded")
  ELSE IF s.tokenUsage.budgetRemainingCents <= 0
  THEN Denied("Budget exhausted")
  ELSE Allowed

canStartAgent(agents, s) ==
  IF agentCapReached(agents)
  THEN Denied("Maximum active agents reached")
  ELSE monitorCanProceed(s)

MonitorCanProceed ==
  /\ monitorResult' = [op |-> "canProceed", permission |-> monitorCanProceed(snapshot)]
  /\ UNCHANGED <<activeAgents, tokenHistory, apiCallHistory,
                 totalTokensConsumed, totalCostCents, snapshot, nextPollAt,
                 lastPendingTasks>>

CanStartAgent ==
  /\ monitorResult' = [op |-> "canStartAgent",
                       permission |-> canStartAgent(activeAgents, snapshot)]
  /\ UNCHANGED <<activeAgents, tokenHistory, apiCallHistory,
                 totalTokensConsumed, totalCostCents, snapshot, nextPollAt,
                 lastPendingTasks>>

SetPendingTasks(count) ==
  /\ snapshot' = [snapshot EXCEPT !.pendingTasks = count]
  /\ lastPendingTasks' = count
  /\ monitorResult' = NoMonitorResult
  /\ UNCHANGED <<activeAgents, tokenHistory, apiCallHistory,
                 totalTokensConsumed, totalCostCents, nextPollAt>>

detectStuckAgents_atThreshold(agents, t) ==
  [id \in DOMAIN agents |->
     IF t - agents[id].startedAt > stuckThresholdMs /\ agents[id].status # "stuck"
     THEN [agents[id] EXCEPT !.status = "stuck"]
     ELSE agents[id]]

\* runtime > stuckThresholdMs / 2, the division being exact
detectStuckAgents(agents, t) ==
  [id \in DOMAIN agents |->
     IF 2 * (t - agents[id].startedAt) > stuckThresholdMs /\ agents[id].status # "stuck"
     THEN [agents[id] EXCEPT !.status = "stuck"]
     ELSE agents[id]]

\* the callback of interval(5000): updateSnapshot, then detectStuckAgents
PollFires ==
  /\ now >= nextPollAt
  /\ nextPollAt' = nextPollAt + MonitorPollMs
  /\ snapshot' = createSnapshot(now, activeAgents, tokenHistory,
                                apiCallHistory, totalTokensConsumed,
                                totalCostCents)
  /\ activeAgents' = detectStuckAgents(activeAgents, now)
  /\ monitorResult' = NoMonitorResult
  /\ UNCHANGED <<tokenHistory, apiCallHistory, totalTokensConsumed,
                 totalCostCents, lastPendingTasks>>

\* time passes; a polling period that has elapsed is served first
TickMonitor ==
  /\ now < MaxMonitorTime
  /\ now < nextPollAt
  /\ now' = now + 1
  /\ monitorResult' = NoMonitorResult
  /\ UNCHANGED <<activeAgents, tokenHistory, apiCallHistory,
                 totalTokensConsumed, totalCostCents, snapshot, nextPollAt,
                 lastPendingTasks>>

InitMonitor ==
  /\ activeAgents = << >>
  /\ tokenHistory = << >>
  /\ apiCallHistory = << >>
  /\ totalTokensConsumed = 0
  /\ totalCostCents = 0
  /\ snapshot = createSnapshot(0, << >>, << >>, << >>, 0, 0)
  /\ nextPollAt = MonitorPollMs
  /\ lastPendingTasks = Undefined
  /\ monitorResult = NoMonitorResult

vars == <<now, cbVars, gateVars, schedVars, routerVars, monitorVars, ranking, pq, bus>>

InitBreaker ==
  /\ cbState = "CLOSED"
  /\ contexts = << >>
  /\ failureCount = 0
  /\ successCount = 0
  /\ lastFailureTime = NoTime
  /\ cbResult = NoResult
  /\ probeSuccesses = 0

Init ==
  /\ now = 0
  /\ InitBreaker
  /\ InitGate
  /\ InitScheduler
  /\ InitRouter
  /\ InitMonitor
  /\ InitQueue
  /\ InitBus

\* the gate and the scheduler in one fixed configuration
InitFixedConfig == Init /\ autoApproveLevel = "auto" /\ maxConcurrent = 1
\* the gate under every autoApproveLevel
InitAnyGate == Init /\ maxConcurrent = 1
\* the scheduler under every maxConcurrent
InitAnyScheduler == Init /\ autoApproveLevel = "auto"

\* Global breaker over several contexts with the default budget
NextBreaker ==
  \/ \E id \in CtxIds : CreateContext(id, NoOverride) /\ UNCHANGED <<now, notBreaker>>
  \/ \E id \in CtxIds : CanProceed(id) /\ UNCHANGED <<now, notBreaker>>
  \/ RecordUsage("ctx-1", 2, 0) /\ UNCHANGED <<now, notBreaker>>
  \/ RecordSuccess /\ UNCHANGED <<now, notBreaker>>
  \/ RecordFailure /\ UNCHANGED <<now, notBreaker>>
  \/ \E id \in CtxIds : ReleaseContext(id) /\ UNCHANGED <<now, notBreaker>>
  \/ TickBreaker

SpecBreaker == InitFixedConfig /\ [][NextBreaker]_vars

\* Budget accounting of one context under every budget and usage input;
\* the breaker opens at most once
NextBudget ==
  \/ \E b \in CustomBudgets : CreateContext("ctx-1", b) /\ UNCHANGED <<now, notBreaker>>
  \/ CanProceed("ctx-1") /\ UNCHANGED <<now, notBreaker>>
  \/ \E u \in UsageInputs : RecordUsage("ctx-1", u[1], u[2]) /\ UNCHANGED <<now, notBreaker>>
  \/ RecordSuccess /\ successCount < 1 /\ UNCHANGED <<now, notBreaker>>
  \/ RecordFailure /\ failureCount < FailureThreshold /\ UNCHANGED <<now, notBreaker>>
  \/ ReleaseContext("ctx-1") /\ UNCHANGED <<now, notBreaker>>
  \/ TickBreaker /\ now < MaxBudgetTime

SpecBudget == InitFixedConfig /\ [][NextBudget]_vars

RequestIds == 1..(MaxRequests + 1)

NextGate ==
  \/ \E op \in Operations, l \in ApprovalLevels, t \in TimeoutInputs :
       RequestApproval(op, l, t) /\ UNCHANGED <<now, notGate>>
  \/ \E id \in RequestIds, by \in Resolvers, r \in Reasons :
       Approve(id, by, r) /\ UNCHANGED <<now, notGate>>
  \/ \E id \in RequestIds, by \in Resolvers :
       Deny(id, by, "policy") /\ UNCHANGED <<now, notGate>>
  \/ \E timer \in gateTimers : TimeoutFires(timer) /\ UNCHANGED <<now, notGate>>
  \/ \E id \in RequestIds :
       WaitForResolution(id, PollIntervalMs) /\ UNCHANGED <<now, notGate>>
  \/ \E poller \in gatePollers : PollWakes(poller) /\ UNCHANGED <<now, notGate>>
  \/ TickGate

SpecGate == InitAnyGate /\ [][NextGate]_vars

\* The gate with its timers and pollers scheduled fairly.  A request is only
\* made, and a poll only begun, when its timer and the poll delays that
\* follow mature within the modelled time span.
TimersFire ==
  \E timer \in gateTimers : TimeoutFires(timer) /\ UNCHANGED <<now, notGate>>

PollersWake ==
  \E poller \in gatePollers : PollWakes(poller) /\ UNCHANGED <<now, notGate>>

NextGateLive ==
  \/ \E op \in Operations, l \in {"auto", "approve"}, t \in TimeoutInputs :
       /\ now + Coalesce(t, DefaultTimeoutMs) + PollIntervalMs <= MaxGateTime
       /\ RequestApproval(op, l, t) /\ UNCHANGED <<now, notGate>>
  \/ \E id \in RequestIds, by \in Resolvers, r \in Reasons :
       Approve(id, by, r) /\ UNCHANGED <<now, notGate>>
  \/ \E id \in RequestIds, by \in Resolvers :
       Deny(id, by, "policy") /\ UNCHANGED <<now, notGate>>
  \/ TimersFire
  \/ \E id \in RequestIds :
       /\ now + PollIntervalMs <= MaxGateTime
       /\ WaitForResolution(id, PollIntervalMs) /\ UNCHANGED <<now, notGate>>
  \/ PollersWake
  \/ TickGate

SpecGateLive ==
  /\ InitFixedConfig /\ [][NextGateLive]_vars
  /\ WF_vars(TickGate) /\ WF_vars(TimersFire) /\ WF_vars(PollersWake)

NextScheduler ==
  \/ \E p \in SchedulePriorities : Schedule(p) /\ UNCHANGED <<now, notScheduler>>
  \/ \E t \in 1..(MaxTasks + 1) : Cancel(t) /\ UNCHANGED <<now, notScheduler>>
  \/ Start /\ UNCHANGED <<now, notScheduler>>
  \/ Stop /\ UNCHANGED <<now, notScheduler>>
  \/ \E t \in TaskIds : WorkResolves(t) /\ UNCHANGED <<now, notScheduler>>
  \/ \E t \in TaskIds : WorkRejects(t) /\ UNCHANGED <<now, notScheduler>>
  \/ \E t \in TaskIds : TaskTimeoutFires(t) /\ UNCHANGED <<now, notScheduler>>

SpecScheduler == InitAnyScheduler /\ [][NextScheduler]_vars

\* the scheduler with every timer callback, also the ones that run after
\* their task has settled
NextTimeout ==
  \/ \E p \in {HIGH, LOW} : Schedule(p) /\ UNCHANGED <<now, notScheduler>>
  \/ Start /\ UNCHANGED <<now, notScheduler>>
  \/ \E t \in TaskIds : WorkResolves(t) /\ UNCHANGED <<now, notScheduler>>
  \/ \E t \in TaskIds : WorkRejects(t) /\ UNCHANGED <<now, notScheduler>>
  \/ \E t \in TaskIds : TaskTimeoutFires(t) /\ UNCHANGED <<now, notScheduler>>
  \/ \E t \in TaskIds : TaskTimeoutLate(t) /\ UNCHANGED <<now, notScheduler>>

SpecTimeout == InitAnyScheduler /\ [][NextTimeout]_vars

\* the scheduler with callers that wait for tasks
NextWait ==
  \/ \E p \in {MEDIUM} : Schedule(p) /\ UNCHANGED <<now, notScheduler>>
  \/ \E t \in TaskIds : Cancel(t) /\ UNCHANGED <<now, notScheduler>>
  \/ Start /\ UNCHANGED <<now, notScheduler>>
  \/ \E t \in TaskIds : WorkResolves(t) /\ UNCHANGED <<now, notScheduler>>
  \/ \E t \in TaskIds : WorkRejects(t) /\ UNCHANGED <<now, notScheduler>>
  \/ \E t \in TaskIds : TaskTimeoutFires(t) /\ UNCHANGED <<now, notScheduler>>
  \/ \E w \in WaitIds, id \in WaitTargets :
       WaitFor(w, id) /\ UNCHANGED <<now, notScheduler>>
  \/ \E w \in WaitIds : WaitTimeoutFires(w) /\ UNCHANGED <<now, notScheduler>>

SpecWait == InitAnyScheduler /\ [][NextWait]_vars

\* the scheduler stopped and started again
NextRestart ==
  \/ \E p \in {CRITICAL, LOW} : Schedule(p) /\ UNCHANGED <<now, notScheduler>>
  \/ StartWithin(MaxRestarts) /\ UNCHANGED <<now, notScheduler>>
  \/ Stop /\ UNCHANGED <<now, notScheduler>>
  \/ \E t \in TaskIds : WorkResolves(t) /\ UNCHANGED <<now, notScheduler>>
  \/ \E t \in TaskIds : WorkRejects(t) /\ UNCHANGED <<now, notScheduler>>
  \/ \E t \in TaskIds : TaskTimeoutFires(t) /\ UNCHANGED <<now, notScheduler>>

SpecRestart == InitAnyScheduler /\ [][NextRestart]_vars

\* an armed timeout of a running task fires
TaskTimeoutsFire ==
  \E t \in TaskIds : TaskTimeoutFires(t) /\ UNCHANGED <<now, notScheduler>>

\* the scheduler never stopped; its timers fire, the work of a task may
\* never settle
NextSchedulerLive ==
  \/ \E p \in {CRITICAL, LOW} : Schedule(p) /\ UNCHANGED <<now, notScheduler>>
  \/ \E t \in TaskIds : Cancel(t) /\ UNCHANGED <<now, notScheduler>>
  \/ Start /\ UNCHANGED <<now, notScheduler>>
  \/ \E t \in TaskIds : WorkResolves(t) /\ UNCHANGED <<now, notScheduler>>
  \/ \E t \in TaskIds : WorkRejects(t) /\ UNCHANGED <<now, notScheduler>>
  \/ TaskTimeoutsFire

SpecSchedulerLive ==
  /\ InitAnyScheduler /\ [][NextSchedulerLive]_vars
  /\ WF_vars(TaskTimeoutsFire)

\* a PriorityQueue under every sequence of calls
NextQueue ==
  \/ \E p \in Priorities : Enqueue(p) /\ UNCHANGED <<now, notQueue>>
  \/ Dequeue /\ UNCHANGED <<now, notQueue>>
  \/ Peek /\ UNCHANGED <<now, notQueue>>
  \/ \E t \in 1..MaxPuts : Remove(t) /\ UNCHANGED <<now, notQueue>>

SpecQueue == InitFixedConfig /\ [][NextQueue]_vars

\* an event bus with emitters and subscribers, some of whose handlers emit
NextBus ==
  \/ \E type \in EventTypes : Emit(type) /\ UNCHANGED <<now, notBus>>
  \/ \E s \in SubIds, kind \in {"on", "replay"}, f \in EventFilters, reacts \in BOOLEAN :
       Subscribe(s, kind, f, reacts) /\ UNCHANGED <<now, notBus>>

SpecBus == InitFixedConfig /\ [][NextBus]_vars

\* the router beside an approval gate its caller may use
NextRouter ==
  \/ \E request \in RouteRequests : Route(request) /\ UNCHANGED <<now, notRouter, gateVars>>
  \/ \E r \in inflight : CallModelReturns(r) /\ UNCHANGED <<now, notRouter, gateVars>>
  \/ \E r \in inflight : CallModelThrows(r) /\ UNCHANGED <<now, notRouter, gateVars>>
  \/ \E id \in HealthInputs, h \in BOOLEAN :
       SetModelHealth(id, h) /\ UNCHANGED <<now, notRouter, gateVars>>
  \/ \E op \in Operations :
       RequestApproval(op, "approve", Undefined) /\ requestCounter < 1 /\ UNCHANGED <<now, notRouter, routerVars>>
  \/ \E id \in RequestIds, by \in Resolvers, r \in Reasons :
       Approve(id, by, r) /\ UNCHANGED <<now, notRouter, routerVars>>

SpecRouter == InitFixedConfig /\ [][NextRouter]_vars

\* rankModels over every registry and request
NextRanking ==
  \E models \in Registries, request \in RankRequests :
    RankModels(models, request) /\ UNCHANGED <<now, notRanking>>

SpecRanking == InitFixedConfig /\ [][NextRanking]_vars

\* the resource monitor under every call and its polling interval
NextMonitor ==
  \/ \E id \in AgentIds, u \in TokenUsageInputs :
       RecordTokenUsage(id, u[1], u[2]) /\ UNCHANGED <<now, notMonitor>>
  \/ \E p \in Providers : RecordApiCall(p) /\ UNCHANGED <<now, notMonitor>>
  \/ \E id \in AgentIds, t \in AgentTasks :
       StartAgent(id, t) /\ UNCHANGED <<now, notMonitor>>
  \/ \E id \in AgentIds : StopAgent(id) /\ UNCHANGED <<now, notMonitor>>
  \/ \E id \in AgentIds, st \in StatusInputs :
       UpdateAgentStatus(id, st) /\ UNCHANGED <<now, notMonitor>>
  \/ KillStuckAgents /\ UNCHANGED <<now, notMonitor>>
  \/ MonitorCanProceed /\ UNCHANGED <<now, notMonitor>>
  \/ CanStartAgent /\ UNCHANGED <<now, notMonitor>>
  \/ \E c \in PendingInputs : SetPendingTasks(c) /\ UNCHANGED <<now, notMonitor>>
  \/ PollFires /\ UNCHANGED <<now, notMonitor>>
  \/ TickMonitor /\ UNCHANGED notMonitor

SpecMonitor == InitFixedConfig /\ [][NextMonitor]_vars

\* ========================================================================
\* PROPERTIES OF THE CIRCUIT BREAKER
\* ========================================================================

\* C3: the breaker state changes only CLOSED -> OPEN (at the failure that
\* brings the count to failureThreshold), HALF_OPEN -> OPEN (one failure),
\* HALF_OPEN -> CLOSED (success threshold reached) and OPEN -> HALF_OPEN (a
\* createContext once the reset timeout has elapsed since the last failure);
\* never CLOSED -> HALF_OPEN or OPEN -> CLOSED.
BreakerTransitions ==
  [][cbState' # cbState =>
       \/ /\ cbState = "CLOSED" /\ cbState' = "OPEN"
          /\ cbResult'.op = "recordFailure"
          /\ failureCount' = failureCount + 1
          /\ failureCount' = FailureThreshold
       \/ /\ cbState = "HALF_OPEN" /\ cbState' = "OPEN"
          /\ cbResult'.op = "recordFailure"
          /\ failureCount' = failureCount + 1
       \/ /\ cbState = "HALF_OPEN" /\ cbState' = "CLOSED"
          /\ cbResult'.op = "recordSuccess"
          /\ successCount + 1 >= SuccessThreshold
       \/ /\ cbState = "OPEN" /\ cbState' = "HALF_OPEN"
          /\ cbResult'.op = "createContext"
          /\ lastFailureTime # NoTime
          /\ now - lastFailureTime >= ResetTimeoutMs]_vars

\* the breaker has gone CLOSED -> OPEN -> HALF_OPEN -> CLOSED
BreakerCycleCompleted ==
  /\ cbState = "CLOSED"
  /\ cbResult.op = "recordSuccess"
  /\ lastFailureTime # NoTime
  /\ failureCount = 0

\* C4: the breaker returns from HALF_OPEN to CLOSED only after at least
\* successThreshold recordSuccess calls made while HALF_OPEN, and both
\* counters are then zero; successes recorded while CLOSED or OPEN do not
\* count toward closing.
ClosesOnlyAfterProbeSuccesses ==
  [][(cbState = "HALF_OPEN" /\ cbState' = "CLOSED") =>
       /\ probeSuccesses' >= SuccessThreshold
       /\ failureCount' = 0
       /\ successCount' = 0]_vars

\* C7: while a context id stays registered its usage counters never
\* decrease and its fuel never increases, and once canProceed fails for it,
\* it fails on every later call until the id is released.
ContextCountersMonotone ==
  [][\A id \in (DOMAIN contexts) \cap (DOMAIN contexts') :
       /\ contexts'[id].tokensUsed >= contexts[id].tokensUsed
       /\ contexts'[id].turnsExecuted >= contexts[id].turnsExecuted
       /\ contexts'[id].costAccumulated >= contexts[id].costAccumulated
       /\ contexts'[id].budget.currentFuel <= contexts[id].budget.currentFuel
       /\ (~canProceed(contexts, id, now).ok =>
             ~canProceed(contexts', id, now').ok)]_vars

\* the checks of canProceed in their order, as <<violated, code, message>>
BudgetChecks(ctxs, id, t) ==
  IF id \notin DOMAIN ctxs
  THEN << <<TRUE, "BUDGET_EXCEEDED", "Context not found">> >>
  ELSE << <<FALSE, "BUDGET_EXCEEDED", "Context not found">>,
          <<ctxs[id].budget.currentFuel <= 0, "FUEL_DEPLETED", "Fuel depleted">>,
          <<~(ctxs[id].tokensUsed < ctxs[id].budget.maxTokens),
            "BUDGET_EXCEEDED", "Token budget exceeded">>,
          <<~(ctxs[id].turnsExecuted < ctxs[id].budget.maxTurns),
            "MAX_TURNS_EXCEEDED", "Max turns exceeded">>,
          <<~(ctxs[id].costAccumulated < ctxs[id].budget.maxCostCents),
            "BUDGET_EXCEEDED", "Cost budget exceeded">>,
          <<~(t - ctxs[id].startTime < ctxs[id].budget.maxTimeMs),
            "TIMEOUT", "Execution timeout">> >>

FirstViolated(checks) ==
  LET bad == {i \in DOMAIN checks : checks[i][1]}
  IN IF bad = {} THEN 0 ELSE CHOOSE i \in bad : \A j \in bad : i <= j

\* C8: canProceed reports exactly the reason of the first violated check in
\* the order context exists, fuel, tokens, turns, cost, elapsed time (so
\* FUEL_DEPLETED whenever fuel <= 0, whatever the other usage), succeeds only
\* when every check passes, and never modifies the context.
CanProceedReportsFirstViolated ==
  [][cbResult'.op = "canProceed" =>
       LET checks == BudgetChecks(contexts, cbResult'.id, now)
           first == FirstViolated(checks)
       IN /\ cbResult'.ok <=> first = 0
          /\ first # 0 => /\ cbResult'.code = checks[first][2]
                          /\ cbResult'.message = checks[first][3]
          /\ contexts' = contexts
          /\ now' = now]_vars

\* canProceed answered FUEL_DEPLETED for a context whose token budget is
\* exceeded as well
FuelReportedBeforeTokens ==
  /\ cbResult.op = "canProceed"
  /\ cbResult.code = "FUEL_DEPLETED"
  /\ cbResult.id \in DOMAIN contexts
  /\ contexts[cbResult.id].tokensUsed >= contexts[cbResult.id].budget.maxTokens

\* C10 as stated: a createContext while OPEN proceeds (to HALF_OPEN, context
\* registered) only if the time since the last failure exceeds
\* resetTimeoutMs, and is otherwise refused with CIRCUIT_OPEN leaving state,
\* counters and contexts unchanged; while CLOSED or HALF_OPEN it succeeds.
ProbeOnlyWhenTimeoutExceeded ==
  [][cbResult'.op = "createContext" =>
       IF cbState = "OPEN"
       THEN IF now - lastFailureTime > ResetTimeoutMs
            THEN /\ cbState' = "HALF_OPEN"
                 /\ cbResult'.ok
                 /\ cbResult'.id \in DOMAIN contexts'
            ELSE /\ cbResult'.code = "CIRCUIT_OPEN"
                 /\ contexts' = contexts
                 /\ cbState' = cbState
                 /\ failureCount' = failureCount
                 /\ successCount' = successCount
       ELSE /\ cbResult'.ok
            /\ cbResult'.id \in DOMAIN contexts'
            /\ cbState' = cbState]_vars

\* C10 (amended): a createContext while OPEN proceeds (to HALF_OPEN, context
\* registered) if the time since the last failure is at least
\* resetTimeoutMs, and is otherwise refused with CIRCUIT_OPEN leaving state,
\* counters and contexts unchanged; while CLOSED or HALF_OPEN it succeeds.
ProbeWhenTimeoutElapsed ==
  [][cbResult'.op = "createContext" =>
       IF cbState = "OPEN"
       THEN IF now - lastFailureTime >= ResetTimeoutMs
            THEN /\ cbState' = "HALF_OPEN"
                 /\ cbResult'.ok
                 /\ cbResult'.id \in DOMAIN contexts'
                 /\ failureCount' = failureCount
                 /\ successCount' = successCount
            ELSE /\ ~cbResult'.ok
                 /\ cbResult'.code = "CIRCUIT_OPEN"
                 /\ contexts' = contexts
                 /\ cbState' = cbState
                 /\ failureCount' = failureCount
                 /\ successCount' = successCount
       ELSE /\ cbResult'.ok
            /\ cbResult'.id \in DOMAIN contexts'
            /\ cbState' = cbState]_vars

\* a probe made exactly resetTimeoutMs after the last failure went through
ProbeAtExactTimeout ==
  /\ cbResult.op = "createContext"
  /\ cbResult.ok
  /\ cbState = "HALF_OPEN"
  /\ cbResult.id \in DOMAIN contexts
  /\ contexts[cbResult.id].startTime = now
  /\ now - lastFailureTime = ResetTimeoutMs

\* ========================================================================
\* PROPERTIES OF THE APPROVAL GATE
\* ========================================================================

\* C6: a stored request is never removed and its status changes at most
\* once: only away from PENDING, and only to APPROVED, DENIED or TIMEOUT; a
\* request stored as AUTO_APPROVED was never PENDING and never changes; no
\* BLOCK-level request is ever stored.
StatusChangesAtMostOnce ==
  [][/\ \A id \in DOMAIN requests :
          /\ id \in DOMAIN requests'
          /\ requests[id].status # "pending" =>
                requests'[id].status = requests[id].status
          /\ requests'[id].status # requests[id].status =>
                requests'[id].status \in {"approved", "denied", "timeout"}
     /\ \A id \in (DOMAIN requests') \ (DOMAIN requests) :
          requests'[id].status \in {"pending", "auto_approved"}
     /\ \A id \in DOMAIN requests' : requests'[id].level # "block"]_vars

\* approve or deny was attempted on a request its timer had already timed
\* out, and was refused
ResolveAfterTimeoutRefused ==
  /\ gateResult.op \in {"approve", "deny"}
  /\ gateResult.code = "ALREADY_RESOLVED"
  /\ gateResult.id \in DOMAIN requests
  /\ requests[gateResult.id].status = "timeout"

\* ========================================================================
\* CIRCUIT BREAKER: FAILURE ACCOUNTING
\* ========================================================================
\* C11: every recordFailure adds one to the failure count and clears the
\* success count; a CLOSED breaker has recorded fewer than failureThreshold
\* failures and opens at the recordFailure that brings the count to
\* failureThreshold, staying CLOSED before that; one recordFailure while
\* HALF_OPEN opens the breaker.
RecordFailureOpensAtThreshold ==
  [][cbResult'.op = "recordFailure" =>
       /\ failureCount' = failureCount + 1
       /\ successCount' = 0
       /\ cbState = "CLOSED" =>
            /\ failureCount < FailureThreshold
            /\ cbState' = IF failureCount' = FailureThreshold
                          THEN "OPEN" ELSE "CLOSED"
       /\ cbState = "HALF_OPEN" => cbState' = "OPEN"]_vars

\* the breaker has just opened from CLOSED at its failureThreshold-th failure
OpenedAtThreshold ==
  /\ cbResult.op = "recordFailure"
  /\ cbState = "OPEN"
  /\ failureCount = FailureThreshold
  /\ successCount = 0

\* C27: recordUsage on a registered context adds the tokens and the cost,
\* one turn, and takes one unit of fuel whatever the usage, so fuel plus
\* turns is constant from the creation of a context on; on an unknown
\* context it fails and changes nothing
RecordUsageTakesOneFuel ==
  [][/\ \A id \in CtxIds, u \in UsageInputs :
          RecordUsage(id, u[1], u[2]) =>
            IF id \in DOMAIN contexts
            THEN /\ cbResult'.ok
                 /\ contexts'[id].tokensUsed = contexts[id].tokensUsed + u[1]
                 /\ contexts'[id].costAccumulated =
                      contexts[id].costAccumulated + u[2]
                 /\ contexts'[id].turnsExecuted = contexts[id].turnsExecuted + 1
                 /\ contexts'[id].budget.currentFuel =
                      contexts[id].budget.currentFuel - 1
            ELSE /\ ~cbResult'.ok
                 /\ contexts' = contexts
     /\ \A id \in DOMAIN contexts \cap DOMAIN contexts' :
          \/ cbResult'.op = "createContext" /\ cbResult'.ok /\ cbResult'.id = id
          \/ contexts'[id].budget.currentFuel + contexts'[id].turnsExecuted =
               contexts[id].budget.currentFuel + contexts[id].turnsExecuted
     /\ \A id \in DOMAIN contexts' \ DOMAIN contexts :
          contexts'[id].turnsExecuted = 0]_vars

\* a context created with one unit of fuel has recorded two usages, one of
\* them of two tokens
TwoTurnsOnOneFuel ==
  /\ "ctx-1" \in DOMAIN contexts
  /\ contexts["ctx-1"].turnsExecuted = 2
  /\ contexts["ctx-1"].tokensUsed = 2
  /\ contexts["ctx-1"].budget.currentFuel = -1

\* the state and the counters of the global breaker
breakerFields == <<cbState, failureCount, successCount, lastFailureTime>>

\* C28: releaseContext, recordUsage and canProceed leave the breaker's state
\* and counters alone; recordSuccess and recordFailure leave every context
\* alone; releaseContext(id) removes the context id and no other; canProceed
\* on a registered context succeeds exactly when its budget allows it,
\* whatever the breaker state
ContextsAndBreakerIndependent ==
  [][/\ cbResult'.op \in {"releaseContext", "recordUsage", "canProceed"} =>
          breakerFields' = breakerFields
     /\ (RecordSuccess \/ RecordFailure) => contexts' = contexts
     /\ \A id \in CtxIds :
          ReleaseContext(id) =>
            /\ DOMAIN contexts' = DOMAIN contexts \ {id}
            /\ \A other \in DOMAIN contexts' : contexts'[other] = contexts[other]
     /\ (cbResult'.op = "canProceed" /\ cbResult'.id \in DOMAIN contexts) =>
          (cbResult'.ok <=>
             FirstViolated(BudgetChecks(contexts, cbResult'.id, now)) = 0)]_vars

\* canProceed succeeded for a context while the breaker was OPEN
ProceedsWhileOpen ==
  /\ cbState = "OPEN"
  /\ cbResult.op = "canProceed"
  /\ cbResult.ok
  /\ cbResult.id \in DOMAIN contexts

\* ========================================================================
\* APPROVAL GATE: CLASSIFICATION, TIMEOUT, RESOLUTION, PENDING COUNT
\* ========================================================================
\* position of a level on the scale AUTO < NOTIFY < APPROVE < BLOCK
levelRank(level) ==
  CASE level = "auto" -> 0
    [] level = "notify" -> 1
    [] level = "approve" -> 2
    [] level = "block" -> 3

\* C12: requestApproval refuses BLOCK with BLOCKED and stores nothing; AUTO
\* and every level at or below autoApproveLevel is stored AUTO_APPROVED with
\* a resolved timestamp, without broadcast, pending-count change or timer;
\* every other level is stored PENDING, broadcast, and gets a timer.
RequestApprovalClassifies ==
  [][\A op \in Operations, l \in ApprovalLevels, t \in TimeoutInputs :
       RequestApproval(op, l, t) =>
         LET id == requestCounter + 1
             kept == \A i \in DOMAIN requests :
                       i \in DOMAIN requests' /\ requests'[i] = requests[i]
         IN IF l = "block"
            THEN /\ ~gateResult'.ok /\ gateResult'.code = "BLOCKED"
                 /\ requests' = requests
                 /\ requestStream' = requestStream
                 /\ pendingCount' = pendingCount
                 /\ gateTimers' = gateTimers
            ELSE IF l = "auto" \/ levelRank(l) <= levelRank(autoApproveLevel)
            THEN /\ gateResult'.ok /\ gateResult'.id = id
                 /\ DOMAIN requests' = DOMAIN requests \cup {id} /\ kept
                 /\ id \notin DOMAIN requests
                 /\ requests'[id].level = l
                 /\ requests'[id].status = "auto_approved"
                 /\ requests'[id].resolvedAt = now
                 /\ requestStream' = requestStream
                 /\ pendingCount' = pendingCount
                 /\ gateTimers' = gateTimers
            ELSE /\ gateResult'.ok /\ gateResult'.id = id
                 /\ DOMAIN requests' = DOMAIN requests \cup {id} /\ kept
                 /\ id \notin DOMAIN requests
                 /\ requests'[id].level = l
                 /\ requests'[id].status = "pending"
                 /\ requests'[id].resolvedAt = NoTime
                 /\ requestStream' = Append(requestStream, id)
                 /\ gateTimers' = gateTimers \cup
                      {[id |-> id,
                        at |-> now + (IF t = Undefined THEN DefaultTimeoutMs ELSE t)]}]_vars

\* a NOTIFY request was stored AUTO_APPROVED, with no timer, by a gate whose
\* autoApproveLevel is NOTIFY or above
AutoApprovedBelowConfiguredLevel ==
  /\ gateResult.op = "requestApproval"
  /\ \E i \in DOMAIN requests :
       /\ requests[i].level = "notify"
       /\ requests[i].status = "auto_approved"
       /\ i \notin {armed.id : armed \in gateTimers}
  /\ levelRank(autoApproveLevel) >= 1

isPending(id) == id \in DOMAIN requests /\ requests[id].status = "pending"
isTerminal(id) ==
  id \in DOMAIN requests /\ requests[id].status \in {"approved", "denied", "timeout"}

\* C13: a PENDING request leaves PENDING only by approve or deny, or to
\* TIMEOUT once its timeout has elapsed; a timer that fires on a PENDING
\* request makes it TIMEOUT and one that fires on a resolved request changes
\* nothing; every PENDING request eventually reaches a terminal status.
PendingUntilResolvedOrTimedOut ==
  /\ [][/\ \A id \in DOMAIN requests :
            (requests[id].status = "pending" /\ requests'[id].status # "pending") =>
              \/ /\ gateResult'.op = "approve" /\ gateResult'.id = id
                 /\ requests'[id].status = "approved"
              \/ /\ gateResult'.op = "deny" /\ gateResult'.id = id
                 /\ requests'[id].status = "denied"
              \/ /\ requests'[id].status = "timeout"
                 /\ now >= requests[id].expiresAt
        /\ \A timer \in gateTimers :
            TimeoutFires(timer) =>
              IF requests[timer.id].status = "pending"
              THEN /\ requests'[timer.id].status = "timeout"
                   /\ \A i \in DOMAIN requests \ {timer.id} : requests'[i] = requests[i]
              ELSE requests' = requests /\ pendingCount' = pendingCount]_vars
  /\ \A id \in RequestIds : isPending(id) ~> isTerminal(id)

\* an APPROVE request was left PENDING until its timeout had elapsed and is
\* now TIMEOUT, its timer spent
TimedOutByTimer ==
  /\ \E id \in DOMAIN requests :
       /\ requests[id].level = "approve"
       /\ requests[id].status = "timeout"
       /\ requests[id].resolvedAt >= requests[id].expiresAt
       /\ id \notin {armed.id : armed \in gateTimers}
  /\ gatePollers = {}

\* what approve (status "approved") or deny (status "denied") must do on
\* request id for resolver by with reason r
resolutionOutcome(id, status, by, r) ==
  IF id \notin DOMAIN requests
  THEN /\ ~gateResult'.ok /\ gateResult'.code = "REQUEST_NOT_FOUND"
       /\ requests' = requests /\ pendingCount' = pendingCount
  ELSE IF requests[id].status # "pending"
  THEN /\ ~gateResult'.ok /\ gateResult'.code = "ALREADY_RESOLVED"
       /\ requests' = requests /\ pendingCount' = pendingCount
  ELSE IF now > requests[id].expiresAt
  THEN /\ ~gateResult'.ok /\ gateResult'.code = "EXPIRED"
       /\ requests' = requests /\ pendingCount' = pendingCount
  ELSE /\ gateResult'.ok
       /\ DOMAIN requests' = DOMAIN requests
       /\ requests'[id].status = status
       /\ requests'[id].resolvedBy = by
       /\ requests'[id].reason = r
       /\ requests'[id].resolvedAt = now
       /\ \A i \in DOMAIN requests \ {id} : requests'[i] = requests[i]

\* C14: approve and deny change only a PENDING request that is not past its
\* expiresAt, recording resolver and reason; on an unknown id they fail with
\* REQUEST_NOT_FOUND, on a resolved request with ALREADY_RESOLVED, on a
\* PENDING request past its expiresAt with EXPIRED, each time leaving the
\* requests and the pending count unchanged; no request is APPROVED or DENIED
\* with a resolution time after its expiry.
ResolveOnlyPendingUnexpired ==
  [][/\ \A id \in RequestIds, by \in Resolvers, r \in Reasons :
          /\ Approve(id, by, r) => resolutionOutcome(id, "approved", by, r)
          /\ Deny(id, by, r) => resolutionOutcome(id, "denied", by, r)
     /\ \A i \in DOMAIN requests' :
          requests'[i].status \in {"approved", "denied"} =>
            requests'[i].resolvedAt <= requests'[i].expiresAt]_vars

\* an approve or deny came after the expiry of a request whose timer had not
\* run yet: it was refused with EXPIRED and the request is still PENDING
ExpiredResolutionRefused ==
  /\ gateResult.op \in {"approve", "deny"}
  /\ gateResult.code = "EXPIRED"
  /\ isPending(gateResult.id)
  /\ now > requests[gateResult.id].expiresAt

\* C15: the value of the pending-count stream equals the number of stored
\* requests whose status is PENDING (the length of getPendingRequests())
PendingCountMatches == pendingCount = Cardinality(getPendingRequests)

\* one request is PENDING while another has left PENDING by timeout
OnePendingOneTimedOut ==
  /\ pendingCount = 1
  /\ \E i, j \in DOMAIN requests :
       requests[i].status = "pending" /\ requests[j].status = "timeout"

polledIds(pollers) == {poller.id : poller \in pollers}

\* C16: waitForResolution on an unknown id returns REQUEST_NOT_FOUND at once;
\* on a stored request it goes on polling only while the request is PENDING
\* and the time is not past expiresAt, marks the request TIMEOUT itself when
\* it wakes past expiresAt, returns a request that is not PENDING, and every
\* call eventually returns.
WaitForResolutionTerminates ==
  /\ [][/\ gateResult'.op = "waitForResolution" =>
            IF gateResult'.id \notin DOMAIN requests
            THEN /\ ~gateResult'.ok
                 /\ gateResult'.code = "REQUEST_NOT_FOUND"
                 /\ gatePollers' = gatePollers
            ELSE /\ gateResult'.ok
                 /\ gateResult'.status # "pending"
                 /\ requests'[gateResult'.id].status = gateResult'.status
                 /\ gateResult'.id \notin polledIds(gatePollers')
        /\ \A poller \in gatePollers :
            PollWakes(poller) =>
              IF now > requests[poller.id].expiresAt
              THEN /\ poller.id \notin polledIds(gatePollers')
                   /\ requests'[poller.id].status =
                        IF requests[poller.id].status = "pending"
                        THEN "timeout" ELSE requests[poller.id].status
              ELSE /\ requests' = requests
                   /\ poller.id \in polledIds(gatePollers')
                        <=> requests[poller.id].status = "pending"]_vars
  /\ \A id \in RequestIds :
       (id \in polledIds(gatePollers)) ~> (id \notin polledIds(gatePollers))

\* waitForResolution returned a request it had marked TIMEOUT itself, the
\* request's own timer not having run yet
PollerMarkedTimeout ==
  /\ gateResult.op = "waitForResolution"
  /\ gateResult.ok
  /\ gateResult.status = "timeout"
  /\ gateResult.id \in {armed.id : armed \in gateTimers}

\* ========================================================================
\* SCHEDULER PROPERTIES
\* ========================================================================
\* units of work that have been started and have not yet finished
executing == {t \in TaskIds : work[t] = "executing"}

\* C1: the number of units of work that have been started and have not yet
\* finished never exceeds maxConcurrent
ExecutingWithinCap == Cardinality(executing) <= maxConcurrent

positionIn(log, t) == CHOOSE i \in DOMAIN log : log[i] = t
occursIn(log, t) == \E i \in DOMAIN log : log[i] = t
outcomeIds == [i \in DOMAIN outcomeLog |-> outcomeLog[i][1]]
recordsOf(t) == Cardinality({i \in DOMAIN completionStream : completionStream[i] = t})

\* C5: every admitted task has at most one terminal outcome, and every task
\* with a terminal outcome (success, failure or timeout) has exactly one
\* record on the completion stream and is no longer in the running set
EveryOutcomeEmitsOneRecord ==
  \A i \in DOMAIN outcomeLog :
    /\ \A j \in DOMAIN outcomeLog : outcomeIds[j] = outcomeIds[i] => j = i
    /\ recordsOf(outcomeIds[i]) = 1
    /\ outcomeIds[i] \notin running

LowCriticalHigh ==
  /\ taskCounter = 3
  /\ tasks[1].priority = LOW
  /\ tasks[2].priority = CRITICAL
  /\ tasks[3].priority = HIGH

\* C9 (as stated): LOW, CRITICAL, HIGH submitted in that order to a started
\* scheduler are run and completed in the order CRITICAL, HIGH, LOW
StartedSubmissionsRunByPriority ==
  (LowCriticalHigh /\ \A t \in 1..3 : tasks[t].whileActive /\ tasks[t].epoch = 1)
    => /\ Len(startLog) = 3 => startLog = <<2, 3, 1>>
       /\ Len(outcomeLog) = 3 => outcomeIds = <<2, 3, 1>>

\* C9 (amended): of two tasks submitted while the scheduler is stopped, with
\* no start between the two submissions, the less urgent one begins
\* execution only after the more urgent one has begun (unless that one was
\* cancelled), and with maxConcurrent = 1 it reaches its terminal outcome
\* only after the more urgent one has
StoppedSubmissionsRunByPriority ==
  \A a, b \in 1..taskCounter :
    (/\ ~tasks[a].whileActive /\ ~tasks[b].whileActive
     /\ tasks[a].epoch = tasks[b].epoch
     /\ tasks[a].priority < tasks[b].priority
     /\ a \notin cancelled)
    => /\ occursIn(startLog, b) =>
            /\ occursIn(startLog, a)
            /\ positionIn(startLog, a) < positionIn(startLog, b)
       /\ (maxConcurrent = 1 /\ occursIn(outcomeIds, b)) =>
            /\ occursIn(outcomeIds, a)
            /\ positionIn(outcomeIds, a) < positionIn(outcomeIds, b)

\* LOW, CRITICAL, HIGH submitted before start have run and completed in the
\* order CRITICAL, HIGH, LOW
StoppedLowCriticalHighCompleted ==
  /\ LowCriticalHigh
  /\ \A t \in 1..3 : ~tasks[t].whileActive /\ tasks[t].epoch = 0
  /\ maxConcurrent = 1
  /\ startLog = <<2, 3, 1>>
  /\ outcomeIds = <<2, 3, 1>>
  /\ completionStream = <<2, 3, 1>>

\* the ids queued at some priority
queuedIds == {t \in TaskIds : inQueue(queue, t)}

\* C29: cancel succeeds exactly on a task that is still queued and removes
\* it from the queue; a cancelled task is never started and never gets an
\* outcome or a completion record; no other task is ever marked cancelled,
\* a task leaves the queue only cancelled or started, and an admitted task
\* leaves the running set only with its outcome
CancelOnlyQueued ==
  /\ [](\A t \in cancelled :
          /\ t \notin queuedIds
          /\ work[t] = "idle"
          /\ ~occursIn(startLog, t)
          /\ ~occursIn(outcomeIds, t)
          /\ ~occursIn(completionStream, t))
  /\ [][/\ \A t \in queuedIds :
             Cancel(t) =>
               /\ cancelled' = cancelled \cup {t}
               /\ queuedIds' = queuedIds \ {t}
               /\ <<running, work, startLog, outcomeLog, completionStream,
                    completedCount, failedCount>>' =
                  <<running, work, startLog, outcomeLog, completionStream,
                    completedCount, failedCount>>
        /\ \A t \in cancelled' \ cancelled : t \in queuedIds
        /\ \A t \in queuedIds \ queuedIds' :
             t \in cancelled' \/ occursIn(startLog', t)
        /\ \A t \in running \ running' :
             ~occursIn(outcomeIds, t) /\ occursIn(outcomeIds', t)]_vars

\* a queued task was cancelled while another was running, and the scheduler
\* has since completed the running one and found nothing left to start
CancelledNeverStarted ==
  /\ 2 \in cancelled
  /\ occursIn(completionStream, 1)
  /\ isRunning
  /\ running = {}
  /\ startLog = <<1>>

\* the outcomes recorded for task t
outcomesOf(t) == SelectSeq(outcomeLog, LAMBDA o : o[1] = t)

\* C30: an admitted task races its work against its own timeout and the
\* first to settle wins.  Timeout first: the task ends as a timeout failure,
\* leaves the running set and adds one to the failed count, and the later
\* outcome of its work adds no completion record and changes neither count.
\* Work first: its outcome is the result and the later timer callback
\* changes nothing.  No task ever has two outcomes.
TimeoutRaceFirstSettledWins ==
  /\ [](\A t \in TaskIds :
          /\ Len(outcomesOf(t)) <= 1
          /\ occursIn(completionStream, t) => outcomesOf(t) = <<<<t, "success">>>>)
  /\ [](completedCount + failedCount = Len(outcomeLog)
          /\ completedCount = Len(completionStream))
  /\ [][\A t \in TaskIds :
          /\ (timeoutTimer[t] = "armed" /\ timeoutTimer'[t] = "fired" /\ t \in running) =>
               /\ work[t] = "executing" /\ work'[t] = "executing"
               /\ t \notin running'
               /\ outcomeLog' = Append(outcomeLog, <<t, "timeout">>)
               /\ failedCount' = failedCount + 1
               /\ <<completedCount, completionStream>>' =
                    <<completedCount, completionStream>>
          /\ (work[t] = "executing" /\ work'[t] # "executing" /\ t \notin running) =>
               /\ outcomesOf(t) = <<<<t, "timeout">>>>
               /\ <<completedCount, failedCount, completionStream, outcomeLog>>' =
                    <<completedCount, failedCount, completionStream, outcomeLog>>
          /\ (work[t] = "executing" /\ work'[t] # "executing" /\ t \in running) =>
               /\ timeoutTimer[t] = "armed"
               /\ t \notin running'
               /\ IF work'[t] = "resolved"
                  THEN /\ outcomeLog' = Append(outcomeLog, <<t, "success">>)
                       /\ completionStream' = Append(completionStream, t)
                       /\ completedCount' = completedCount + 1
                       /\ failedCount' = failedCount
                  ELSE /\ outcomeLog' = Append(outcomeLog, <<t, "failure">>)
                       /\ failedCount' = failedCount + 1
                       /\ <<completedCount, completionStream>>' =
                            <<completedCount, completionStream>>
          /\ (timeoutTimer[t] = "armed" /\ timeoutTimer'[t] = "fired" /\ t \notin running) =>
               /\ work[t] \in {"resolved", "rejected"}
               /\ <<isRunning, maxConcurrent, queue, taskCounter, tasks, running,
                    work, completedCount, failedCount, metrics, completionStream,
                    waiters, unhandled, startLog, outcomeLog, startCount,
                    cancelled>>' =
                  <<isRunning, maxConcurrent, queue, taskCounter, tasks, running,
                    work, completedCount, failedCount, metrics, completionStream,
                    waiters, unhandled, startLog, outcomeLog, startCount,
                    cancelled>>]_vars

\* task 1 timed out and its work resolved afterwards, task 2 resolved and
\* its timer ran afterwards: one failure, one completion record
BothRacesSettledLate ==
  /\ outcomeLog = <<<<1, "timeout">>, <<2, "success">>>>
  /\ work[1] = "resolved" /\ timeoutTimer[1] = "fired"
  /\ work[2] = "resolved" /\ timeoutTimer[2] = "fired"
  /\ completedCount = 1 /\ failedCount = 1
  /\ completionStream = <<2>>

\* a record of task id was emitted at one of the positions lo+1 .. hi of
\* the completion stream
emittedIn(id, lo, hi) == \E i \in (lo + 1)..hi : completionStream[i] = id

\* C31: the promise of waitFor is resolved at most once, by a resolve call
\* that is the only one made; it resolves with the record of its task when
\* that record is emitted after the call while the wait's own timer has not
\* fired, and with TASK_TIMEOUT when the timer fires first.  A wait never
\* stays pending over a record of its task, a timeout of the task itself
\* settles no wait, and only a task that completed after the call gives ok.
WaitForResolvesOnce ==
  /\ [](\A w \in WaitIds :
          LET wait == waits[w] IN
          /\ wait.resolves <= 1
          /\ wait.resolves = 1 <=> wait.result # "none"
          /\ wait.subscribed <=> wait.timer = "armed"
          /\ wait.subscribed =>
               /\ wait.resolves = 0
               /\ ~emittedIn(wait.taskId, wait.calledAt, Len(completionStream))
          /\ wait.result = "ok" =>
               /\ wait.timer = "cleared"
               /\ wait.settledAt > wait.calledAt
               /\ completionStream[wait.settledAt] = wait.taskId
               /\ outcomesOf(wait.taskId) = <<<<wait.taskId, "success">>>>
               /\ wait.taskId \notin cancelled
          /\ wait.result = "TASK_TIMEOUT" =>
               /\ wait.timer = "fired"
               /\ ~emittedIn(wait.taskId, wait.calledAt, wait.settledAt))
  /\ [][/\ \A w \in WaitIds : waits[w].result # "none" => waits'[w] = waits[w]
        /\ (\E t \in TaskIds : timeoutTimer'[t] # timeoutTimer[t] /\ timeoutTimer[t] = "armed")
             => waits' = waits]_vars

\* a caller that waited for task 1 after its record had been emitted got
\* TASK_TIMEOUT
WaitedForCompletedTask ==
  /\ completionStream = <<1>>
  /\ waits[1].taskId = 1 /\ waits[1].calledAt = 1
  /\ waits[1].result = "TASK_TIMEOUT"

\* the tasks a queue holds, and the bucket that holds task t
itemsOf(q) == Range(toArray(q))
bucketOf(q, t) == CHOOSE p \in Priorities : \E i \in DOMAIN q[p] : q[p][i] = t
\* task t is served before task u: more urgent, or as urgent and enqueued
\* earlier
servedBefore(q, t, u) ==
  \/ bucketOf(q, t) < bucketOf(q, u)
  \/ bucketOf(q, t) = bucketOf(q, u) /\ t <= u
mostUrgent(q) == CHOOSE t \in itemsOf(q) : \A u \in itemsOf(q) : servedBefore(q, t, u)

\* C32: dequeue and peek return the task of the most urgent non-empty
\* bucket that was enqueued first there; dequeue takes that task out and
\* nothing else, peek changes nothing; remove takes out the named task only
\* and tells whether it was there; the other tasks keep their bucket and
\* their order; the size is the number of enqueues minus the number of
\* successful dequeues and removes.  So a task taken for admission is at
\* least as urgent as every task left waiting.
QueueServesMostUrgentFifo ==
  /\ [](/\ size(pq.queues) = pq.puts - pq.takes
        /\ size(pq.queues) = Cardinality(itemsOf(pq.queues))
        /\ isEmpty(pq.queues) <=> size(pq.queues) = 0)
  /\ [][LET q == pq.queues
            r == pq'.queues
            c == pq'.call
            without(t) == SelectSeq(toArray(q), LAMBDA x : x # t)
        IN /\ \A t \in itemsOf(q) \cap itemsOf(r) : bucketOf(r, t) = bucketOf(q, t)
           /\ c.op = "enqueue" =>
                /\ SelectSeq(toArray(r), LAMBDA x : x # pq'.puts) = toArray(q)
                /\ bucketOf(r, pq'.puts) = c.arg
                /\ r[c.arg][Len(r[c.arg])] = pq'.puts
           /\ c.op \in {"dequeue", "peek"} =>
                IF itemsOf(q) = {} THEN c.ret = Undefined /\ r = q
                ELSE /\ c.ret = mostUrgent(q)
                     /\ \A u \in itemsOf(r) : bucketOf(q, c.ret) <= bucketOf(r, u)
                     /\ toArray(r) = IF c.op = "peek" THEN toArray(q)
                                     ELSE without(c.ret)
           /\ c.op = "remove" =>
                /\ c.ret = (c.arg \in itemsOf(q))
                /\ toArray(r) = without(c.arg)]_vars

\* tasks 2 and 3 were enqueued as CRITICAL after the LOW task 1; dequeue
\* returned 2 and left 3 ahead of 1
CriticalOvertookLow ==
  /\ pq.call = [op |-> "dequeue", arg |-> Undefined, ret |-> 2]
  /\ pq.queues[CRITICAL] = <<3>>
  /\ pq.queues[LOW] = <<1>>
  /\ pq.puts = 3 /\ pq.takes = 1

\* the classes a scheduled task can be in
classesOf(t) ==
  {c \in {"queued", "running", "completed", "failed", "cancelled"} :
     \/ c = "queued" /\ inQueue(queue, t)
     \/ c = "running" /\ t \in running
     \/ c = "completed" /\ \E i \in DOMAIN outcomeLog : outcomeLog[i] = <<t, "success">>
     \/ c = "failed" /\ \E i \in DOMAIN outcomeLog :
                          outcomeLog[i][1] = t /\ outcomeLog[i][2] # "success"
     \/ c = "cancelled" /\ t \in cancelled}

WorkFailureAbsorbed ==
  /\ [](~unhandled)
  /\ [][\A t \in running :
          (work[t] = "executing" /\ work'[t] = "rejected") =>
            /\ failedCount' = failedCount + 1
            /\ outcomeLog' = Append(outcomeLog, <<t, "failure">>)
            /\ t \notin running']_vars

timesIn(log, t) == Cardinality({i \in DOMAIN log : log[i] = t})

\* C38: the work of a scheduled task is started at most once, a task is
\* held by the queue at most once and never while it is in the running
\* set, and a task that was started or cancelled is never queued again.
WorkStartedAtMostOnce ==
  \A t \in TaskIds :
    /\ timesIn(startLog, t) <= 1
    /\ timesIn(toArray(queue), t) <= 1
    /\ ~(inQueue(queue, t) /\ t \in running)
    /\ inQueue(queue, t) => timesIn(startLog, t) = 0 /\ t \notin cancelled
    /\ t \in running => timesIn(startLog, t) = 1
    /\ t \in cancelled => timesIn(startLog, t) = 0
    /\ work[t] # "idle" <=> timesIn(startLog, t) = 1

\* at cap 2, task 1 was cancelled in the queue, then tasks 2 and 3 were
\* admitted by two different calls and run together
CancelledBesideTwoRunning ==
  /\ cancelled = {1}
  /\ startLog = <<2, 3>>
  /\ running = {2, 3}
  /\ tasks[3].whileActive

\* the first n elements of a sequence
firstOf(seq, n) == SubSeq(seq, 1, IF n < Len(seq) THEN n ELSE Len(seq))

EveryTaskAdmittedAndSettled ==
  /\ isRunning ~> (isEmpty(queue) /\ running = {})
  /\ [](\A t \in 1..taskCounter :
          \/ inQueue(queue, t) \/ t \in running \/ t \in cancelled
          \/ occursIn(startLog, t) /\ occursIn(outcomeIds, t))
  /\ [](isRunning /\ ~isEmpty(queue) => Cardinality(running) = maxConcurrent)
  /\ [][(isRunning /\ Len(outcomeLog') > Len(outcomeLog)) =>
          /\ startLog' = startLog \o
               firstOf(toArray(queue), maxConcurrent - Cardinality(running) + 1)
          /\ toArray(queue) = (SubSeq(startLog', Len(startLog) + 1, Len(startLog'))
                                 \o toArray(queue'))]_vars

\* at cap 1 task 1 never settled and timed out, task 2 failed, and task 3,
\* scheduled while the scheduler was full, completed
ThirdCompletedAfterTimeoutAndFailure ==
  /\ maxConcurrent = 1
  /\ outcomeLog = <<<<1, "timeout">>, <<2, "failure">>, <<3, "success">>>>
  /\ work[1] = "executing"
  /\ taskCounter = 3 /\ tasks[3].whileActive

\* ========================================================================
\* EVENT BUS PROPERTIES
\* ========================================================================
\* ids of the events of a sequence that pass a filter, in sequence order
matchingIds(events, eventFilter) ==
  LET kept == SelectSeq(events, LAMBDA e : matchesFilter(e, eventFilter))
  IN [i \in DOMAIN kept |-> kept[i].id]

\* the newest n elements of a sequence
lastOf(events, n) ==
  IF Len(events) <= n THEN events
  ELSE SubSeq(events, Len(events) - n + 1, Len(events))

\* C33: the replay ring holds the last replayBufferSize emitted events,
\* whatever the subscribers' filters; what a subscriber with replay has
\* received begins with the events of the ring at its subscription that
\* pass its filter, in emission order, and goes on with events emitted
\* after it subscribed; a plain subscriber has received only events
\* emitted after it subscribed.
ReplayThenLive ==
  /\ bus.ring = lastOf(bus.emitted, replayBufferSize)
  /\ \A s \in SubIds :
       LET sub == bus.subs[s]
           replay == matchingIds(sub.replayed, sub.filter)
       IN /\ sub.kind = "replay" =>
               /\ sub.replayed = lastOf(SubSeq(bus.emitted, 1, sub.since),
                                        replayBufferSize)
               /\ Len(sub.received) >= Len(replay)
               /\ SubSeq(sub.received, 1, Len(replay)) = replay
               /\ \A i \in (Len(replay) + 1)..Len(sub.received) :
                    sub.received[i] > sub.since
          /\ sub.kind = "on" =>
               \A i \in DOMAIN sub.received : sub.received[i] > sub.since

\* C40: event ids are 1, 2, 3, ... in emission order, the ring holds them
\* in that order, and every subscriber has received the events that pass
\* its filter in emission order.
DeliveredInEmissionOrder ==
  /\ \A i \in DOMAIN bus.emitted : bus.emitted[i].id = i
  /\ \A i, j \in DOMAIN bus.ring : i < j => bus.ring[i].id < bus.ring[j].id
  /\ \A s \in SubIds :
       LET got == bus.subs[s].received
       IN \A i, j \in DOMAIN got : i < j => got[i] < got[j]

\* ========================================================================
\* ROUTER PROPERTIES
\* ========================================================================
\* C2: no backend is invoked for a request whose approval level is NOTIFY or
\* APPROVE unless an approval for that request was granted before the call
NonAutoInvokedOnlyAfterApproval ==
  \A i \in DOMAIN invocations :
    invocations[i].approvalLevel \in {"notify", "approve"} => invocations[i].approved

\* the route call suspended by this step, if any
suspendedHere == inflight' \ inflight

\* the registered backends that are healthy now, have every required
\* capability and lie within the cost and latency ceilings of the request
eligibleModels(request) ==
  {m \in Range(Models) :
     /\ modelHealth[m.modelId]
     /\ \A cap \in request.requiredCapabilities : cap \in m.capabilities
     /\ request.maxCostCents # Undefined =>
          (Ceil4(request.task.length) + 500) * m.costPerMillionTokens * 100
            <= request.maxCostCents * 1000000
     /\ request.maxLatencyMs # Undefined =>
          m.averageLatencyMs <= request.maxLatencyMs}

\* C21: the selected backend and the fallback chain of a decision are
\* backends that pass every filter at the time of the decision; when no
\* backend passes, route fails with NO_AVAILABLE_MODEL and invokes none
DecisionWithinFilters ==
  [][\A request \in RouteRequests :
       (Route(request) /\ validateRequest(request)) =>
         IF eligibleModels(request) = {}
         THEN /\ routeResult' = RouteErr(request.id, "NO_AVAILABLE_MODEL")
              /\ invocations' = invocations
              /\ suspendedHere = {}
         ELSE \E r \in suspendedHere :
                /\ r.decision.candidates # << >>
                /\ Range(r.decision.candidates) \subseteq eligibleModels(request)
                /\ invocations'[Len(invocations')].modelId =
                     r.decision.candidates[1].modelId]_vars

\* with a cost ceiling below the estimate of the healthy backend of cost 10,
\* the decision selected the backend of cost 0
CheapBackendSelected ==
  /\ modelHealth["gpt-5.2"]
  /\ \E r \in inflight :
       /\ r.request.maxCostCents = 100
       /\ r.request.task = LongTask
       /\ r.decision.candidates[1].costPerMillionTokens = 0

\* the approval level the rules give a request, first match first
levelByRules(request) ==
  LET safetyReview == request.category = "safety_review"
      critical == request.priority = CRITICAL
      executorCode == /\ "code_generation" \in request.requiredCapabilities
                      /\ request.agentId = "executor"
  IN CASE safetyReview -> "approve"
       [] ~safetyReview /\ critical -> "notify"
       [] ~safetyReview /\ ~critical /\ executorCode -> "approve"
       [] OTHER -> "auto"

\* C23: the approval level of a decision follows from the request alone:
\* SAFETY_REVIEW gives APPROVE, else CRITICAL gives NOTIFY, else code
\* generation for the executor gives APPROVE, else AUTO
ApprovalLevelByRules ==
  [][\A r \in suspendedHere :
       r.decision.approvalLevel = levelByRules(r.request)]_vars

\* a CRITICAL code-generation request of the executor is in flight with NOTIFY
CriticalExecutorNotified ==
  \E r \in inflight :
    /\ r.request.priority = CRITICAL
    /\ "code_generation" \in r.request.requiredCapabilities
    /\ r.request.agentId = "executor"
    /\ r.decision.approvalLevel = "notify"

\* C24: a failed backend call is followed by one call of the next candidate
\* of the chain and is not reported while a candidate remains; after the
\* last candidate fails route returns ALL_MODELS_FAILED and counts a failed
\* request; a successful call ends the walk, its retryCount being the number
\* of candidates that failed before it
FallbackWalksChainInOrder ==
  [][\A r \in inflight :
       LET chain == r.decision.candidates
           lastCalled == invocations[Len(invocations)].modelId
       IN /\ lastCalled = chain[r.index].modelId
          /\ CallModelThrows(r) =>
               IF r.index < Len(chain)
               THEN /\ routeResult'.op = "none"
                    /\ routerMetrics' = routerMetrics
                    /\ Len(invocations') = Len(invocations) + 1
                    /\ invocations'[Len(invocations')].modelId =
                         chain[r.index + 1].modelId
                    /\ \E q \in inflight' : q.call = r.call
               ELSE /\ routeResult' = RouteErr(r.request.id, "ALL_MODELS_FAILED")
                    /\ routerMetrics'.failedRequests =
                         routerMetrics.failedRequests + 1
                    /\ invocations' = invocations
                    /\ inflight' = {}
          /\ CallModelReturns(r) =>
               /\ routeResult'.ok
               /\ routeResult'.modelId = lastCalled
               /\ routeResult'.retryCount = r.index - 1
               /\ invocations' = invocations
               /\ inflight' = {}]_vars

\* a fallback backend answered after the selected backend had failed
FallbackAnswered ==
  /\ routeResult.op = "route"
  /\ routeResult.ok
  /\ routeResult.retryCount = 1
  /\ Len(invocations) >= 2
  /\ routeResult.modelId = invocations[Len(invocations)].modelId
  /\ routeResult.modelId # invocations[Len(invocations) - 1].modelId

\* C25: a request whose task is empty or blank, or whose maxCostCents is
\* given and not positive, is refused with INVALID_REQUEST before anything
\* is broadcast, filtered, ranked or invoked
InvalidRequestRejectedUpFront ==
  [][\A request \in RouteRequests :
       (/\ Route(request)
        /\ \/ request.task.blank
           \/ request.maxCostCents # Undefined /\ request.maxCostCents <= 0)
       => /\ routeResult' = RouteErr(request.id, "INVALID_REQUEST")
          /\ routerRequestStream' = routerRequestStream
          /\ invocations' = invocations
          /\ inflight' = inflight
          /\ routerMetrics' = routerMetrics]_vars

\* a route call was refused as invalid after an earlier one was broadcast
InvalidRefusedAfterValid ==
  /\ routeResult.op = "route"
  /\ routeResult.code = "INVALID_REQUEST"
  /\ routeCounter = 2
  /\ Len(routerRequestStream) = 1

\* C26: totalRequests = successfulRequests + failedRequests, the usage
\* counts sum to successfulRequests, a route call that passes validation
\* adds one to totalRequests, and a successful route adds one to the usage
\* count of the backend that produced the response
RouterMetricsConsistent ==
  /\ [](/\ routerMetrics.totalRequests =
             routerMetrics.successfulRequests + routerMetrics.failedRequests
        /\ SumOver(routerMetrics.modelUsage, ModelIds) =
             routerMetrics.successfulRequests
        /\ routerMetrics.totalRequests + Cardinality(inflight) =
             Len(routerRequestStream))
  /\ [][\A r \in inflight :
          CallModelReturns(r) =>
            LET responder == r.decision.candidates[r.index].modelId
            IN routerMetrics'.modelUsage =
                 [routerMetrics.modelUsage EXCEPT ![responder] = @ + 1]]_vars

\* the rank of a backend for a request: position of its provider in the
\* category's table (absent providers last), then the caller's preferred
\* provider first, then cost
rankKey(m, request) ==
  <<providerRank(categoryModelMap[request.category], m.provider),
    IF request.preferredProvider # NoProvider
       /\ m.provider = request.preferredProvider THEN 0 ELSE 1,
    m.costPerMillionTokens>>

keyLeq(k1, k2) ==
  \/ k1[1] < k2[1]
  \/ k1[1] = k2[1] /\ k1[2] < k2[2]
  \/ k1[1] = k2[1] /\ k1[2] = k2[2] /\ k1[3] <= k2[3]

\* C22: the ranked survivors are the survivors ordered by category table
\* position, then caller preference, then ascending cost
RankedByCategoryPreferenceCost ==
  /\ Range(ranking.ranked) = Range(ranking.models)
  /\ Len(ranking.ranked) = Len(ranking.models)
  /\ \A i, j \in DOMAIN ranking.ranked :
       i < j => keyLeq(rankKey(ranking.ranked[i], ranking.request),
                       rankKey(ranking.ranked[j], ranking.request))

\* ========================================================================
\* RESOURCE MONITOR PROPERTIES
\* ========================================================================
activeCount == Cardinality(DOMAIN activeAgents)

\* C17: startAgent succeeds while the active-agent count is below
\* maxActiveAgents; at the cap it returns false and leaves the active set
\* unchanged; the count never exceeds maxActiveAgents
StartAgentRespectsCap ==
  /\ [](activeCount <= maxActiveAgents)
  /\ [][\A id \in AgentIds, t \in AgentTasks :
          StartAgent(id, t) =>
            IF activeCount >= maxActiveAgents
            THEN /\ ~monitorResult'.started
                 /\ activeAgents' = activeAgents
            ELSE /\ monitorResult'.started
                 /\ DOMAIN activeAgents' = DOMAIN activeAgents \cup {id}
                 /\ activeAgents'[id].status = "running"]_vars

\* startAgent was refused with the active set at the cap
StartRefusedAtCap ==
  /\ monitorResult.op = "startAgent"
  /\ ~monitorResult.started
  /\ activeCount = maxActiveAgents

\* C18: killStuckAgents removes and returns exactly the agents whose runtime
\* exceeds stuckThresholdMs or whose turns exceed maxAgentTurns, leaving the
\* others as they were; the polling pass removes no agent and changes only
\* the status, to 'stuck', of agents past half the threshold
KillStuckAgentsRemovesOffenders ==
  [][/\ KillStuckAgents =>
          LET offenders ==
                {id \in DOMAIN activeAgents :
                   \/ now - activeAgents[id].startedAt > stuckThresholdMs
                   \/ activeAgents[id].turnsExecuted > maxAgentTurns}
          IN /\ monitorResult'.killed = offenders
             /\ DOMAIN activeAgents' = DOMAIN activeAgents \ offenders
             /\ \A id \in DOMAIN activeAgents' :
                  activeAgents'[id] = activeAgents[id]
     /\ PollFires =>
          /\ DOMAIN activeAgents' = DOMAIN activeAgents
          /\ \A id \in DOMAIN activeAgents :
               activeAgents'[id] =
                 IF 2 * (now - activeAgents[id].startedAt) > stuckThresholdMs
                 THEN [activeAgents[id] EXCEPT !.status = "stuck"]
                 ELSE activeAgents[id]]_vars

\* killStuckAgents killed one agent for its runtime and kept a younger one
KilledOneKeptOne ==
  /\ monitorResult.op = "killStuckAgents"
  /\ monitorResult.killed = {"agent-1"}
  /\ "agent-2" \in DOMAIN activeAgents
  /\ activeAgents["agent-2"].turnsExecuted <= maxAgentTurns

\* the denial of the first failing check in the order token rate, cost
\* rate, remaining budget and, for a start, active-agent cap
firstFailingCheck(forStart) ==
  IF snapshot.tokenUsage.tokensPerMinute > maxTokensPerMinute
  THEN Denied("Token rate limit exceeded")
  ELSE IF snapshot.tokenUsage.costCentsPerMinute > maxCostCentsPerMinute
  THEN Denied("Cost rate limit exceeded")
  ELSE IF snapshot.tokenUsage.budgetRemainingCents <= 0
  THEN Denied("Budget exhausted")
  ELSE IF forStart /\ activeCount >= maxActiveAgents
  THEN Denied("Maximum active agents reached")
  ELSE Allowed

\* C19: canProceed and canStartAgent report the first failing check in the
\* order token rate, cost rate, remaining budget, active-agent cap
PermissionChecksInOrder ==
  [][/\ monitorResult'.op = "canProceed" =>
          monitorResult'.permission = firstFailingCheck(FALSE)
     /\ monitorResult'.op = "canStartAgent" =>
          monitorResult'.permission = firstFailingCheck(TRUE)]_vars

\* C20: the snapshot agrees with the monitor's state: its agents (status
\* included) with getActiveAgents, its totals with the accumulated usage,
\* its pendingTasks with the count last given to setPendingTasks
SnapshotAgreesWithState ==
  /\ getSnapshot.activeAgents = getActiveAgents
  /\ getSnapshot.tokenUsage.totalTokens = totalTokensConsumed
  /\ getSnapshot.tokenUsage.budgetRemainingCents = budgetCents - totalCostCents
  /\ lastPendingTasks # Undefined =>
       getSnapshot.pendingTasks = lastPendingTasks


====
